---- MODULE Spec2Model ----
(***************************************************************************)
(* The deployment lifecycle engine of the shuttle deployer: the            *)
(* persistence store and its log router (deployer/src/persistence/mod.rs), *)
(* the tracing layer that turns scope entries into state logs              *)
(* (deployer/src/deployment/deploy_layer.rs), and the deployment manager   *)
(* with its build queue and run queue that drive them.                     *)
(***************************************************************************)
EXTENDS Integers, Sequences, FiniteSets, TLC

\* ------------------------------------------------------------------------
\* Bounds of the model
\* ------------------------------------------------------------------------
MaxDeploy == 2          \* deployments with a non-nil id
MaxSubmit == 2          \* submissions (queue_push, run_push) over a run
MaxRestarts == 1        \* process restarts (shutdown followed by startup)
MaxTime == 2            \* instants a row inserted directly can carry
MaxServices == 4        \* service ids Uuid::new_v4() hands out
MaxPuts == 3            \* insert_secret and insert_resource calls over a run
MaxLogs == 3            \* logs handed to record by direct callers over a run
MaxFailures == 2        \* store calls of the router task that fail over a run
MaxSpans == 3           \* spans made in the registry over a run
MaxSubs == 1            \* receivers made by get_log_subscriber over a run
MaxEvents == 2          \* events given to the capture layer over a run

\* ------------------------------------------------------------------------
\* Vocabulary
\* ------------------------------------------------------------------------
NilId == 0                              \* Uuid::nil()
DeployIds == 1..MaxDeploy               \* ids produced by Uuid::new_v4()
AllIds == {NilId} \cup DeployIds
Garbage == -1                           \* an id field that does not parse

Transient == {"Queued", "Building", "Built", "Loading"}
Terminal == {"Completed", "Crashed", "Stopped"}
States == Transient \cup {"Running"} \cup Terminal

ServiceIds == {"s1", "s2"}
ServiceName(s) == IF s = "s1" THEN "alpha" ELSE "beta"
ServiceNames == {ServiceName(s) : s \in ServiceIds}

\* The n-th service id Uuid::new_v4() hands out, and the names a caller may
\* ask for.
ServiceUuid(n) == "s" \o ToString(n)
ServiceUuids == {ServiceUuid(n) : n \in 1..MaxServices}
CatalogNames == ServiceNames \cup {"gamma"}

\* The keys of secrets in ascending order, their values, and the types and
\* data of resources that callers pass in.
SecretKeys == <<"key1", "key3">>
SecretValues == {"value1", "value1_updated"}
ResourceTypes == {"database::shared::postgres", "database::aws_rds::mariadb"}
ResourceData == {"root", "foo"}

STATE_MESSAGE == "NEW STATE"

\* The threads that hand logs to the recorder.
Emitters == {"e1", "e2"}

\* The tasks that call get_or_create_service at the same time.
Callers == {"c1", "c2", "c3"}

\* Option<T> is the empty set (None) or a singleton (Some).
None == {}
Some(x) == {x}

\* A socket is written by its port; SocketToString is Display for
\* SocketAddr, SocketAddrFromStr is SocketAddr::from_str (None on a string
\* that is no socket).
Sockets == {8000 + d : d \in AllIds}
SocketToString(a) == <<"127.0.0.1", a>>
SocketAddrFromStr(str) ==
    IF Len(str) = 2 /\ str[1] = "127.0.0.1" /\ str[2] \in Sockets
    THEN Some(str[2]) ELSE None

VARIABLES
    deployments,    \* table deployments: id -> row
    services,       \* table services: set of [id, name]
    logs,           \* table logs: id -> its rows, in insertion order
    rpc,            \* the router task's position
    cur,            \* the log the router task holds: <<>> or <<log>>
    states,         \* the state logs handed to the recorder, per id
    pc,             \* each deployment's place in the pipeline
    svc,            \* the service id carried by the Queued / Built item
    killed,         \* cancellation token fired
    outcome,        \* what the build or the user program did, not yet seen
    preds,          \* active deployments found at run-queue admission
    phase,          \* startup sequence: "cleanup", "resume", "up"
    resumeQ,        \* runnable deployments still to be re-submitted
    restarts,       \* restarts so far
    slots,          \* the build-slot arbiter's view of each id
    secrets,        \* table secrets: its rows, in insertion order
    resources,      \* table resources: its rows, in insertion order
    ret,            \* the last direct call of a store operation and its result
    uuids,          \* service ids handed out by Uuid::new_v4() so far
    puts,           \* insert_secret and insert_resource calls so far
    chan,           \* the buffer of the ingress channel
    emit,           \* per emitting thread: the log its record call is sending
    acked,          \* the logs whose record call has returned
    senders,        \* some Sender of the ingress channel is still alive
    writes,         \* the router's store calls so far and how each ended
    cast,           \* the router's broadcast steps, one per log, in order
    clock,          \* Utc::now() as the emitting threads read it
    taken,          \* the logs that went through the ingress channel, in order
    look,           \* each caller's place inside get_or_create_service
    spans,          \* the registry's spans: parent and ScopeDetails extension
    heard,          \* the events given to on_event, each by its current span
    stream,         \* the broadcast channel's buffer: the values it retains
    subs            \* the broadcast channel's receivers and what they got

vars == <<deployments, services, logs, rpc, cur, states, pc, svc,
          killed, outcome, preds, phase, resumeQ, restarts, slots,
          secrets, resources, ret, uuids, puts,
          chan, emit, acked, senders, writes, cast, clock, taken,
          look, spans, heard, stream, subs>>

store == <<deployments, services, logs>>
catalog == <<secrets, resources, ret, uuids, puts, look>>
ingress == <<chan, emit, acked, senders, writes, cast, clock, taken>>
capture == <<spans, heard>>
fanout == <<stream, subs>>
router == <<rpc, cur>>
workers == <<pc, svc, killed, outcome, preds>>
startup == <<phase, resumeQ, restarts>>

\* ------------------------------------------------------------------------
\* persistence/mod.rs: the store
\* ------------------------------------------------------------------------
\* Option<SocketAddr>::map(|socket| socket.to_string()), as bound to the
\* address column.
AddressColumn(address) == {SocketToString(a) : a \in address}

\* Variant: INSERT OR REPLACE, which overwrites the row of a colliding id.
InsertDeploymentOrReplace(deps, deployment) ==
    [d \in DOMAIN deps \cup {deployment.id} |->
        IF d = deployment.id
        THEN [service_id |-> deployment.service_id,
              state |-> deployment.state,
              last_update |-> deployment.last_update,
              address |-> {SocketToString(a) : a \in deployment.address}]
        ELSE deps[d]]

\* Variant: the address is left out of the column list, so it stays NULL.
InsertDeploymentNoAddress(deps, deployment) ==
    IF deployment.id \in DOMAIN deps THEN deps
    ELSE deps @@ (deployment.id :>
            [service_id |-> deployment.service_id,
             state |-> deployment.state,
             last_update |-> deployment.last_update,
             address |-> None])

\* INSERT INTO deployments (id, service_id, state, last_update, address):
\* fails (store unchanged) if the id collides.
InsertDeployment(deps, deployment) ==
    IF deployment.id \in DOMAIN deps THEN deps
    ELSE deps @@ (deployment.id :>
            [service_id |-> deployment.service_id,
             state |-> deployment.state,
             last_update |-> deployment.last_update,
             address |-> AddressColumn(deployment.address)])

\* UPDATE deployments SET state, last_update, address WHERE id = ?
\* Variant: the UPDATE leaves state out of its SET list.
UpdateDeploymentKeepsState(deps, st) ==
    [d \in DOMAIN deps |->
        IF d = st.id
        THEN [deps[d] EXCEPT !.last_update = st.last_update,
                             !.address = AddressColumn(st.address)]
        ELSE deps[d]]

\* Variant: the UPDATE leaves last_update out of its SET list.
UpdateDeploymentKeepsTime(deps, st) ==
    [d \in DOMAIN deps |->
        IF d = st.id
        THEN [deps[d] EXCEPT !.state = st.state,
                             !.address = AddressColumn(st.address)]
        ELSE deps[d]]

\* Variant: the UPDATE has no WHERE clause.
UpdateDeploymentEveryRow(deps, st) ==
    [d \in DOMAIN deps |->
        [deps[d] EXCEPT !.state = st.state,
                        !.last_update = st.last_update,
                        !.address = AddressColumn(st.address)]]

UpdateDeployment(deps, st) ==
    [d \in DOMAIN deps |->
        IF d = st.id
        THEN [deps[d] EXCEPT !.state = st.state,
                             !.last_update = st.last_update,
                             !.address = AddressColumn(st.address)]
        ELSE deps[d]]

\* Variant: WHERE state != Running, which stops finished rows again.
CleanupEveryInactive(deps) ==
    [d \in DOMAIN deps |->
        IF deps[d].state # "Running"
        THEN [deps[d] EXCEPT !.state = "Stopped"]
        ELSE deps[d]]

\* Variant: Loading is missing from the IN list.
CleanupSkipsLoading(deps) ==
    [d \in DOMAIN deps |->
        IF deps[d].state \in {"Queued", "Built", "Building"}
        THEN [deps[d] EXCEPT !.state = "Stopped"]
        ELSE deps[d]]

\* UPDATE deployments SET state = Stopped WHERE state IN (Queued, Built,
\* Building, Loading)
CleanupInvalidStates(deps) ==
    [d \in DOMAIN deps |->
        IF deps[d].state \in {"Queued", "Built", "Building", "Loading"}
        THEN [deps[d] EXCEPT !.state = "Stopped"]
        ELSE deps[d]]

\* Variant: the new row comes before the rows the table holds.
InsertLogFirst(table, log) == [table EXCEPT ![log.id] = <<log>> \o @]

\* INSERT INTO logs ...
InsertLog(table, log) == [table EXCEPT ![log.id] = Append(@, log)]

\* Variant: the state bound to the query is Loading.
GetActiveDeploymentsLoading(deps, service_id) ==
    {d \in DOMAIN deps :
        deps[d].service_id = service_id /\ deps[d].state = "Loading"}

\* SELECT * FROM deployments WHERE service_id = ? AND state = Running
GetActiveDeployments(deps, service_id) ==
    {d \in DOMAIN deps :
        deps[d].service_id = service_id /\ deps[d].state = "Running"}

\* SELECT d.id ... FROM deployments JOIN services WHERE state = Running
\* ORDER BY last_update: every order the query can return (rows with equal
\* last_update come in either order).
RunnableIds(deps, svcs) ==
    {d \in DOMAIN deps :
        deps[d].state = "Running" /\ \E s \in svcs : s.id = deps[d].service_id}

\* Variant: the query has no ORDER BY, so the rows come in any order.
GetAllRunnableDeploymentsUnordered(deps, svcs) ==
    LET ids == RunnableIds(deps, svcs)
        n == Cardinality(ids)
    IN {q \in [1..n -> ids] : \A i, j \in 1..n : i # j => q[i] # q[j]}

GetAllRunnableDeployments(deps, svcs) ==
    LET ids == RunnableIds(deps, svcs)
        n == Cardinality(ids)
    IN {q \in [1..n -> ids] :
          /\ \A i, j \in 1..n : i # j => q[i] # q[j]
          /\ \A i, j \in 1..n :
                i < j => deps[q[i]].last_update <= deps[q[j]].last_update}

\* AddressGetter::get_address_for_service: the first row of
\*   SELECT d.address ... WHERE s.name = ? AND d.state = Running
\*   ORDER BY d.last_update
\* decoded as a String and parsed as a socket. The set of results the call
\* can give (one per row that can come first).
DecodeString(column) == IF column = None THEN <<>> ELSE CHOOSE x \in column : TRUE

AddressCandidates(deps, svcs, name) ==
    {d \in DOMAIN deps :
        /\ deps[d].state = "Running"
        /\ \E s \in svcs : s.id = deps[d].service_id /\ s.name = name}

GetAddressForService(deps, svcs, name) ==
    LET cands == AddressCandidates(deps, svcs, name)
        first == {d \in cands :
                    \A e \in cands : deps[d].last_update <= deps[e].last_update}
    IN IF cands = {}
       THEN {[ok |-> TRUE, value |-> None]}
       ELSE {LET parsed == SocketAddrFromStr(DecodeString(deps[d].address))
             IN IF parsed = None
                THEN [ok |-> FALSE, value |-> None]
                ELSE [ok |-> TRUE, value |-> parsed] : d \in first}

\* The Result of insert_deployment: Err(Error::from(..)) when the INSERT is
\* rejected because the id collides.
InsertDeploymentOk(deps, deployment) == deployment.id \notin DOMAIN deps

\* FromRow for Deployment: the address column is parsed as a socket; a
\* column that holds no socket fails the decoding.
DeploymentFromRow(id, row) ==
    LET parsed == IF row.address = None THEN None
                  ELSE SocketAddrFromStr(CHOOSE x \in row.address : TRUE)
    IN IF row.address # None /\ parsed = None
       THEN [ok |-> FALSE, value |-> None]
       ELSE [ok |-> TRUE,
             value |-> Some([id |-> id,
                             service_id |-> row.service_id,
                             state |-> row.state,
                             last_update |-> row.last_update,
                             address |-> parsed])]

\* get_deployment: SELECT * FROM deployments WHERE id = ? with
\* fetch_optional, as Result<Option<Deployment>>.
GetDeployment(deps, id) ==
    IF id \notin DOMAIN deps THEN [ok |-> TRUE, value |-> None]
    ELSE DeploymentFromRow(id, deps[id])

\* SELECT * FROM services WHERE name = ? with fetch_optional: a row of that
\* name, if there is one.
GetServiceByName(svcs, name) ==
    LET found == {s \in svcs : s.name = name}
    IN IF found = {} THEN None ELSE Some(CHOOSE s \in found : TRUE)

\* Variant: the lookup by name is missing, a service is made on every call.
GetOrCreateServiceAlwaysCreates(svcs, name, fresh) ==
    LET service == [id |-> fresh, name |-> name]
    IN [value |-> service, services |-> svcs \cup {service}]

\* get_or_create_service: the service it returns and the table it leaves;
\* fresh is the id Uuid::new_v4() gives if a service is made.
GetOrCreateService(svcs, name, fresh) ==
    LET found == GetServiceByName(svcs, name)
    IN IF found # None
       THEN [value |-> CHOOSE s \in found : TRUE, services |-> svcs]
       ELSE LET service == [id |-> fresh, name |-> name]
            IN [value |-> service, services |-> svcs \cup {service}]

\* DELETE FROM services WHERE id = ?
DeleteService(svcs, id) == {s \in svcs : s.id # id}

\* Variant: a plain INSERT, which the primary key (service_id, key) rejects
\* when the secret exists.
InsertSecretNoReplace(rows, secret) ==
    IF \E i \in DOMAIN rows : /\ rows[i].service_id = secret.service_id
                              /\ rows[i].key = secret.key
    THEN rows
    ELSE Append(rows, secret)

\* INSERT OR REPLACE INTO secrets (service_id, key, value, last_update): the
\* row that holds the same primary key (service_id, key) is deleted, and the
\* new row is added.
InsertSecret(rows, secret) ==
    Append(SelectSeq(rows, LAMBDA r : ~(/\ r.service_id = secret.service_id
                                        /\ r.key = secret.key)),
           secret)

\* SELECT * FROM secrets WHERE service_id = ? ORDER BY key
GetSecrets(rows, service_id) ==
    LET mine == SelectSeq(rows, LAMBDA r : r.service_id = service_id)
        n == Len(SecretKeys)
        from[i \in 1..(n + 1)] ==
            IF i > n THEN <<>>
            ELSE SelectSeq(mine, LAMBDA r : r.key = SecretKeys[i]) \o from[i + 1]
    IN from[1]

\* Variant: a plain INSERT, which the primary key (service_id, type) rejects
\* when the service has a resource of that type.
InsertResourceNoReplace(rows, resource) ==
    IF \E i \in DOMAIN rows : /\ rows[i].service_id = resource.service_id
                              /\ rows[i].type = resource.type
    THEN rows
    ELSE Append(rows, resource)

\* INSERT OR REPLACE INTO resources (service_id, type, data): the row that
\* holds the same primary key (service_id, type) is deleted, and the new row
\* is added.
InsertResource(rows, resource) ==
    Append(SelectSeq(rows, LAMBDA r : ~(/\ r.service_id = resource.service_id
                                        /\ r.type = resource.type)),
           resource)

\* SELECT * FROM resources WHERE service_id = ?
GetResources(rows, service_id) ==
    SelectSeq(rows, LAMBDA r : r.service_id = service_id)

\* ------------------------------------------------------------------------
\* deployment/deploy_layer.rs: the capture layer
\* ------------------------------------------------------------------------
\* The attributes of a span entered through #[instrument(fields(id = ..,
\* state = .., address = ..))]: the declared field names and their values.
Scope(id, state, address) ==
    [fields |-> {"id", "state"} \cup (IF address = None THEN {} ELSE {"address"}),
     id |-> id, state |-> state, address |-> address]

\* NewStateVisitor::is_valid
\* Variant: a span counts only if it declares address as well.
IsValidNeedsAddress(attrs) ==
    {"id", "state", "address"} \subseteq attrs.fields

IsValid(attrs) == "id" \in attrs.fields /\ "state" \in attrs.fields

\* Uuid::try_parse(..).unwrap_or_default()
\* Variant: the formatted value never parses, so every id is the default.
UuidTryParseAlwaysNil(raw) == NilId

UuidTryParse(raw) == IF raw \in DeployIds THEN raw ELSE NilId

\* Variant: the state field never parses, so State::default() is kept.
NewStateVisitorDefaultState(attrs) ==
    [id |-> UuidTryParse(attrs.id),
     state |-> "Queued",
     address |-> IF "address" \in attrs.fields THEN attrs.address ELSE None]

\* Variant: the address branch tests for another field name, so no address
\* is ever taken.
NewStateVisitorNoAddress(attrs) ==
    [id |-> UuidTryParse(attrs.id),
     state |-> attrs.state,
     address |-> None]

\* Variant: the address branch lacks its field-name test, so the last field
\* visited (state) is taken for the address.
NewStateVisitorAnyFieldAddress(attrs) ==
    [id |-> UuidTryParse(attrs.id),
     state |-> attrs.state,
     address |-> IF "address" \in attrs.fields THEN attrs.address
                 ELSE Some(<<"state", attrs.state>>)]

\* NewStateVisitor::record_debug over the span's fields
NewStateVisitor(attrs) ==
    [id |-> UuidTryParse(attrs.id),
     state |-> attrs.state,
     address |-> IF "address" \in attrs.fields THEN attrs.address ELSE None]

\* Variant: the nil-id test is missing.
OnNewSpanNoNilCheck(attrs, now) ==
    IF ~IsValid(attrs) THEN <<>>
    ELSE LET details == NewStateVisitor(attrs)
         IN << [id |-> details.id,
                state |-> details.state,
                timestamp |-> now,
                target |-> "deployer",
                fields |-> "{}",
                type |-> "State",
                address |-> details.address] >>

\* DeployLayer::on_new_span: the log handed to the recorder, <<>> if none
OnNewSpan(attrs, now) ==
    IF ~IsValid(attrs) THEN <<>>
    ELSE LET details == NewStateVisitor(attrs)
         IN IF details.id = NilId THEN <<>>
            ELSE << [id |-> details.id,
                     state |-> details.state,
                     timestamp |-> now,
                     target |-> "deployer",
                     fields |-> "{}",
                     type |-> "State",
                     address |-> details.address] >>

\* Variant: the ScopeDetails are put on the span before the early returns.
ExtensionsInsertAlways(attrs) == Some(NewStateVisitor(attrs))

\* DeployLayer::on_new_span: the ScopeDetails it leaves in the span's
\* extensions, None on its early returns.
ExtensionsInsert(attrs) ==
    IF ~IsValid(attrs) THEN None
    ELSE LET details == NewStateVisitor(attrs)
         IN IF details.id = NilId THEN None ELSE Some(details)

\* Scope::from_root: a span and its ancestors in the registry reg, outermost
\* first; span 0 stands for no current span (event_scope gives None).
RECURSIVE FromRoot(_, _)
FromRoot(reg, span) ==
    IF span = 0 THEN <<>>
    ELSE Append(FromRoot(reg, reg[span].parent), span)

\* The same spans, innermost first.
RECURSIVE FromLeaf(_, _)
FromLeaf(reg, span) ==
    IF span = 0 THEN <<>>
    ELSE <<span>> \o FromLeaf(reg, reg[span].parent)

\* The loop of on_event over a stack of spans: the ScopeDetails of the first
\* span that has some, None when no span has.
RECURSIVE FirstDetails(_, _)
FirstDetails(reg, stack) ==
    IF stack = <<>> THEN None
    ELSE IF reg[Head(stack)].details # None THEN reg[Head(stack)].details
    ELSE FirstDetails(reg, Tail(stack))

\* The event log on_event makes from the ScopeDetails it found.
EventLog(found, fields, now) ==
    IF found = None THEN <<>>
    ELSE LET details == CHOOSE x \in found : TRUE
         IN << [id |-> details.id,
                state |-> details.state,
                timestamp |-> now,
                target |-> "deployer",
                fields |-> fields,
                type |-> "Event",
                address |-> None] >>

\* Variant: the loop walks the scope from the event's span outward.
OnEventInnermost(reg, span, fields, now) ==
    EventLog(FirstDetails(reg, FromLeaf(reg, span)), fields, now)

\* DeployLayer::on_event: the log handed to the recorder, <<>> if none
OnEvent(reg, span, fields, now) ==
    EventLog(FirstDetails(reg, FromRoot(reg, span)), fields, now)

\* impl From<Log> for StateLog (the test recorder's view of a state log)
StateLog(log) == [state |-> log.state, has_address |-> log.address # None]

\* Variant: last_update is a default instant instead of the log's timestamp.
DeploymentStateFromDefaultTime(log) ==
    [id |-> log.id,
     state |-> log.state,
     last_update |-> 0,
     address |-> IF log.address = None THEN None
                 ELSE SocketAddrFromStr(CHOOSE x \in log.address : TRUE)]

\* impl From<Log> for DeploymentState
DeploymentStateFrom(log) ==
    [id |-> log.id,
     state |-> log.state,
     last_update |-> log.timestamp,
     address |-> IF log.address = None THEN None
                 ELSE SocketAddrFromStr(CHOOSE x \in log.address : TRUE)]

\* impl From<Log> for persistence::Log
PersistenceLog(log) ==
    [id |-> log.id, timestamp |-> log.timestamp, state |-> log.state,
     target |-> log.target,
     fields |-> IF log.type = "Event" THEN log.fields ELSE STATE_MESSAGE]

\* Variant: the State arm inserts the log with its own target.
StateMarkerLogKeepsTarget(log) ==
    [id |-> log.id, timestamp |-> log.timestamp, state |-> log.state,
     target |-> log.target, fields |-> STATE_MESSAGE]

\* The row the router's State arm inserts: target "" and the state marker.
StateMarkerLog(log) ==
    [id |-> log.id, timestamp |-> log.timestamp, state |-> log.state,
     target |-> "", fields |-> STATE_MESSAGE]

\* ------------------------------------------------------------------------
\* persistence/mod.rs: the log router task
\* ------------------------------------------------------------------------
\* LogRecorder::record for Persistence: a send on the capacity-0 channel,
\* which returns when the router task has received the log. The recorder
\* of the layer's tests keeps the state logs it was handed.
Record(log) ==
    /\ rpc = "recv"
    /\ cur' = <<log>>
    /\ rpc' = "insert"
    /\ states' = IF log.type = "State"
                 THEN [states EXCEPT ![log.id] = Append(@, StateLog(log))]
                 ELSE states

\* Utc::now() as the thread working on deployment d reads it. The instants
\* one deployment's logs and row carry are only compared with each other
\* (and by ORDER BY last_update, which may see any order): they are counted
\* per deployment, each reading later than the one before; the readings of
\* different deployments are kept apart, so that rows differ in last_update.
Now(d) == Len(states[d]) * (MaxDeploy + 1) + d + 1

\* Entering a scope on a worker: on_new_span, then record if it made a log.
Enter(attrs) ==
    LET made == OnNewSpan(attrs, Now(UuidTryParse(attrs.id)))
    IN IF made = <<>>
       THEN UNCHANGED <<rpc, cur, states>>
       ELSE Record(made[1])

RouterInsertLog ==
    /\ rpc = "insert"
    /\ logs' = InsertLog(logs, IF cur[1].type = "State"
                                THEN StateMarkerLog(cur[1])
                                ELSE PersistenceLog(cur[1]))
    /\ rpc' = IF cur[1].type = "State" THEN "update" ELSE "publish"
    /\ UNCHANGED <<catalog, ingress, capture, fanout, slots, deployments, services, cur, states, workers, startup>>

RouterUpdateDeployment ==
    /\ rpc = "update"
    /\ deployments' = UpdateDeployment(deployments, DeploymentStateFrom(cur[1]))
    /\ rpc' = "publish"
    /\ UNCHANGED <<catalog, ingress, capture, fanout, slots, services, logs, cur, states, workers, startup>>

RouterPublish ==
    /\ rpc = "publish"
    /\ rpc' = "recv"
    /\ cur' = <<>>
    /\ UNCHANGED <<catalog, ingress, capture, fanout, slots, store, states, workers, startup>>

\* ------------------------------------------------------------------------
\* The deployment manager, the build queue and the run queue
\* ------------------------------------------------------------------------
Registered(d) == pc[d] \notin {"none", "done"}

\* An id no submission has used so far.
Fresh(d) == pc[d] = "none" /\ d \notin DOMAIN deployments /\ states[d] = <<>>

\* The id of a new submission: Uuid::new_v4() (ids are taken in order, one
\* unused id being as good as another), or the nil id.
NewId(d) ==
    /\ Fresh(d)
    /\ Cardinality({e \in AllIds : ~Fresh(e)}) < MaxSubmit
    /\ d # NilId => \A e \in DeployIds : e < d => ~Fresh(e)

\* The socket the run queue binds deployment d to.
AddressOf(d) == Some(SocketToString(8000 + d))

\* The service of a new submission: an existing one, or the next one
\* get_or_create_service makes (services are taken in order as well).
NewService(s) == s = "s1" \/ \E e \in AllIds : ~Fresh(e)

\* DeploymentManager::queue_push: enqueue onto the build queue.
QueuePush(d, s) ==
    /\ phase = "up"
    /\ NewId(d)
    /\ NewService(s)
    /\ pc' = [pc EXCEPT ![d] = "queued"]
    /\ svc' = [svc EXCEPT ![d] = s]
    /\ UNCHANGED <<catalog, ingress, capture, fanout, slots, store, router, states, killed, outcome,
                   preds, startup>>

\* DeploymentManager::run_push of an item that has no row (as the layer's
\* test deployment_from_run does): the Built scope, then the run queue.
RunPush(d, s) ==
    /\ phase = "up"
    /\ NewId(d)
    /\ NewService(s)
    /\ Enter(Scope(d, "Built", None))
    /\ pc' = [pc EXCEPT ![d] = "built"]
    /\ svc' = [svc EXCEPT ![d] = s]
    /\ UNCHANGED <<catalog, ingress, capture, fanout, slots, store, killed, outcome, preds, startup>>

\* Variant: a kill that finds no owner reports Stopped all the same.
KillUnchecked(d) ==
    /\ phase = "up"
    /\ IF Registered(d)
       THEN /\ killed' = [killed EXCEPT ![d] = TRUE]
            /\ UNCHANGED <<router, states>>
       ELSE /\ Enter(Scope(d, "Stopped", None))
            /\ UNCHANGED killed
    /\ UNCHANGED <<catalog, ingress, capture, fanout, slots, store, pc, svc, outcome, preds, startup>>

\* DeploymentManager::kill: fire the cancellation token of a deployment a
\* queue owns; a kill that finds none, or a fired one, changes nothing.
Kill(d) ==
    /\ phase = "up"
    /\ killed' = [killed EXCEPT ![d] = killed[d] \/ Registered(d)]
    /\ UNCHANGED <<catalog, ingress, capture, fanout, slots, store, router, states, pc, svc, outcome, preds, startup>>

\* Build queue: a Queued item is dequeued, its row is created and the
\* Queued scope is entered.
Dequeue(d) ==
    /\ pc[d] = "queued"
    /\ deployments' = InsertDeployment(deployments,
            [id |-> d, service_id |-> svc[d], state |-> "Queued",
             last_update |-> Now(d) - 1, address |-> None])
    /\ Enter(Scope(d, "Queued", None))
    /\ pc' = [pc EXCEPT ![d] = "admit"]
    /\ UNCHANGED <<catalog, ingress, capture, fanout, slots, services, logs, svc, killed, outcome, preds, startup>>

\* Variant: every worker that ends releases, whether it held a slot or not.
ReleaseSlotUnconditional(d) == [slots EXCEPT ![d].released = @ + 1]

\* BuildQueueClient::release_slot(id), called when a build that holds a slot
\* leaves Building.
ReleaseSlot(d) ==
    IF pc[d] = "building"
    THEN [slots EXCEPT ![d].released = @ + 1]
    ELSE slots

\* The configured cap on concurrent builds.
BuildCap == 1

\* The builds that are running.
Builds == {e \in AllIds : pc[e] = "building"}

\* Variant: a granted build starts whatever the number of running builds.
SlotGrantedUncapped(d) ==
    /\ pc[d] = "admit"
    /\ ~killed[d]
    /\ slots' = [slots EXCEPT ![d].asked = "granted"]
    /\ Enter(Scope(d, "Building", None))
    /\ pc' = [pc EXCEPT ![d] = "building"]
    /\ UNCHANGED <<catalog, ingress, capture, fanout, store, svc, killed, outcome, preds, startup>>

\* get_slot(id) granted: the build starts in its Building scope, once
\* fewer builds than the cap are running.
SlotGranted(d) ==
    /\ pc[d] = "admit"
    /\ ~killed[d]
    /\ Cardinality(Builds) < BuildCap
    /\ slots' = [slots EXCEPT ![d].asked = "granted"]
    /\ Enter(Scope(d, "Building", None))
    /\ pc' = [pc EXCEPT ![d] = "building"]
    /\ UNCHANGED <<catalog, ingress, capture, fanout, store, svc, killed, outcome, preds, startup>>

\* Variant: a denied build stays in the queue and asks again.
SlotDeniedWaits(d) ==
    /\ pc[d] = "admit"
    /\ slots' = [slots EXCEPT ![d].asked = "denied"]
    /\ UNCHANGED <<catalog, ingress, capture, fanout, store, router, states, workers, startup>>

\* get_slot(id) denied: straight to Stopped.
SlotDenied(d) ==
    /\ pc[d] = "admit"
    /\ slots' = [slots EXCEPT ![d].asked = "denied"]
    /\ Enter(Scope(d, "Stopped", None))
    /\ pc' = [pc EXCEPT ![d] = "done"]
    /\ UNCHANGED <<catalog, ingress, capture, fanout, store, svc, killed, outcome, preds, startup>>

\* Variant: the worker does not look at its token when the build is over.
BuildSucceedsIgnoresKill(d) ==
    /\ pc[d] = "building"
    /\ outcome[d] = "none"
    /\ slots' = ReleaseSlot(d)
    /\ Enter(Scope(d, "Built", None))
    /\ pc' = [pc EXCEPT ![d] = "built"]
    /\ UNCHANGED <<catalog, ingress, capture, fanout, store, svc, killed, outcome, preds, startup>>

\* The build succeeds: the Built scope, and the item goes to the run queue.
BuildSucceeds(d) ==
    /\ pc[d] = "building"
    /\ ~killed[d]
    /\ outcome[d] = "none"
    /\ slots' = ReleaseSlot(d)
    /\ Enter(Scope(d, "Built", None))
    /\ pc' = [pc EXCEPT ![d] = "built"]
    /\ UNCHANGED <<catalog, ingress, capture, fanout, store, svc, killed, outcome, preds, startup>>

\* Run queue admission: kill every other active deployment of the service,
\* then load in the Loading scope, which carries the bound socket.
RunAdmit(d) ==
    /\ pc[d] = "built"
    /\ ~killed[d]
    /\ LET active == GetActiveDeployments(deployments, svc[d]) \ {d}
       IN /\ preds' = [preds EXCEPT ![d] = active]
          /\ killed' = [x \in AllIds |->
                          killed[x] \/ (x \in active /\ Registered(x))]
    /\ Enter(Scope(d, "Loading", AddressOf(d)))
    /\ pc' = [pc EXCEPT ![d] = "loading"]
    /\ UNCHANGED <<catalog, ingress, capture, fanout, slots, store, svc, outcome, startup>>

\* The loaded program starts, once every predecessor is terminal.
StartRunning(d) ==
    /\ pc[d] = "loading"
    /\ ~killed[d]
    /\ outcome[d] = "none"
    /\ \A p \in preds[d] :
          p \in DOMAIN deployments => deployments[p].state \in Terminal
    /\ Enter(Scope(d, "Running", AddressOf(d)))
    /\ pc' = [pc EXCEPT ![d] = "running"]
    /\ UNCHANGED <<catalog, ingress, capture, fanout, slots, store, svc, killed, outcome, preds, startup>>

\* The build fails, or the user program panics (while loading or running).
Fail(d) ==
    /\ pc[d] \in {"building", "loading", "running"}
    /\ outcome[d] = "none"
    /\ outcome' = [outcome EXCEPT ![d] = "crashed"]
    /\ UNCHANGED <<catalog, ingress, capture, fanout, slots, store, router, states, pc, svc, killed,
                   preds, startup>>

\* The user program's main returns cleanly.
Return(d) ==
    /\ pc[d] = "running"
    /\ outcome[d] = "none"
    /\ outcome' = [outcome EXCEPT ![d] = "ok"]
    /\ UNCHANGED <<catalog, ingress, capture, fanout, slots, store, router, states, pc, svc, killed,
                   preds, startup>>

\* The worker sees the failure: the Crashed scope.
EmitCrashed(d) ==
    /\ Registered(d)
    /\ outcome[d] = "crashed"
    /\ slots' = ReleaseSlot(d)
    /\ Enter(Scope(d, "Crashed", None))
    /\ pc' = [pc EXCEPT ![d] = "done"]
    /\ UNCHANGED <<catalog, ingress, capture, fanout, store, svc, killed, outcome, preds, startup>>

\* The worker sees the clean return: the Completed scope.
EmitCompleted(d) ==
    /\ pc[d] = "running"
    /\ outcome[d] = "ok"
    /\ ~killed[d]
    /\ Enter(Scope(d, "Completed", None))
    /\ pc' = [pc EXCEPT ![d] = "done"]
    /\ UNCHANGED <<catalog, ingress, capture, fanout, slots, store, svc, killed, outcome, preds, startup>>

\* The worker sees its token fired: the Stopped scope.
EmitStopped(d) ==
    /\ pc[d] \in {"admit", "building", "built", "loading", "running"}
    /\ killed[d]
    /\ outcome[d] # "crashed"
    /\ slots' = ReleaseSlot(d)
    /\ Enter(Scope(d, "Stopped", None))
    /\ pc' = [pc EXCEPT ![d] = "done"]
    /\ UNCHANGED <<catalog, ingress, capture, fanout, store, svc, killed, outcome, preds, startup>>

\* A span that declares id and state but whose id is no UUID.
StrayScope ==
    /\ \E st \in States : Enter(Scope(Garbage, st, None))
    /\ UNCHANGED <<catalog, ingress, capture, fanout, slots, store, workers, startup>>

\* ------------------------------------------------------------------------
\* Shutdown and startup recovery
\* ------------------------------------------------------------------------
\* The process ends once the router has drained and a new one starts: the
\* queues, the tokens and the workers are gone, the store stays.
Restart ==
    /\ phase = "up"
    /\ restarts < MaxRestarts
    /\ rpc = "recv"
    /\ restarts' = restarts + 1
    /\ phase' = "cleanup"
    /\ pc' = [d \in AllIds |-> "none"]
    /\ killed' = [d \in AllIds |-> FALSE]
    /\ outcome' = [d \in AllIds |-> "none"]
    /\ preds' = [d \in AllIds |-> {}]
    /\ UNCHANGED <<catalog, ingress, capture, fanout, slots, store, router, states, svc, resumeQ>>

\* Startup, step 1 and 2: cleanup_invalid_states(), then
\* get_all_runnable_deployments().
Cleanup ==
    /\ phase = "cleanup"
    /\ deployments' = CleanupInvalidStates(deployments)
    /\ resumeQ' \in GetAllRunnableDeployments(deployments', services)
    /\ phase' = "resume"
    /\ UNCHANGED <<catalog, ingress, capture, fanout, slots, services, logs, router, states, workers, restarts>>

\* Startup, step 3: run_push a Built for the next runnable row.
Resume ==
    /\ phase = "resume"
    /\ resumeQ # <<>>
    /\ LET d == resumeQ[1]
       IN /\ Enter(Scope(d, "Built", None))
          /\ pc' = [pc EXCEPT ![d] = "built"]
          /\ svc' = [svc EXCEPT ![d] = deployments[d].service_id]
    /\ resumeQ' = Tail(resumeQ)
    /\ UNCHANGED <<catalog, ingress, capture, fanout, slots, store, killed, outcome, preds, phase, restarts>>

StartupDone ==
    /\ phase = "resume"
    /\ resumeQ = <<>>
    /\ phase' = "up"
    /\ UNCHANGED <<catalog, ingress, capture, fanout, slots, store, router, states, workers, resumeQ, restarts>>

\* ------------------------------------------------------------------------
\* The system
\* ------------------------------------------------------------------------
Init ==
    /\ deployments = <<>>
    /\ services = {[id |-> s, name |-> ServiceName(s)] : s \in ServiceIds}
    /\ logs = [d \in AllIds |-> <<>>]
    /\ rpc = "recv"
    /\ cur = <<>>
    /\ states = [d \in AllIds |-> <<>>]
    /\ pc = [d \in AllIds |-> "none"]
    /\ svc = [d \in AllIds |-> "s1"]
    /\ killed = [d \in AllIds |-> FALSE]
    /\ outcome = [d \in AllIds |-> "none"]
    /\ preds = [d \in AllIds |-> {}]
    /\ phase = "cleanup"
    /\ resumeQ = <<>>
    /\ restarts = 0
    /\ slots = [d \in AllIds |-> [asked |-> "no", released |-> 0]]
    /\ secrets = <<>>
    /\ resources = <<>>
    /\ ret = [op |-> "none", arg |-> None, ok |-> TRUE, value |-> None]
    /\ uuids = Cardinality(ServiceIds)
    /\ puts = 0
    /\ chan = <<>>
    /\ emit = [e \in Emitters |-> <<>>]
    /\ acked = {}
    /\ senders = TRUE
    /\ writes = {}
    /\ cast = <<>>
    /\ clock = 0
    /\ taken = <<>>
    /\ look = [c \in Callers |-> [at |-> "idle", name |-> "", value |-> None]]
    /\ spans = <<>>
    /\ heard = <<>>
    /\ stream = <<>>
    /\ subs = <<>>

Next ==
    \/ \E d \in AllIds, s \in ServiceIds : QueuePush(d, s)
    \/ \E d \in AllIds, s \in ServiceIds : RunPush(d, s)
    \/ \E d \in AllIds : Kill(d)
    \/ \E d \in AllIds : Dequeue(d)
    \/ \E d \in AllIds : SlotGranted(d)
    \/ \E d \in AllIds : SlotDenied(d)
    \/ \E d \in AllIds : BuildSucceeds(d)
    \/ \E d \in AllIds : RunAdmit(d)
    \/ \E d \in AllIds : StartRunning(d)
    \/ \E d \in AllIds : Fail(d)
    \/ \E d \in AllIds : Return(d)
    \/ \E d \in AllIds : EmitCrashed(d)
    \/ \E d \in AllIds : EmitCompleted(d)
    \/ \E d \in AllIds : EmitStopped(d)
    \/ StrayScope
    \/ RouterInsertLog
    \/ RouterUpdateDeployment
    \/ RouterPublish
    \/ Restart
    \/ Cleanup
    \/ Resume
    \/ StartupDone

Spec == Init /\ [][Next]_vars

\* The engine while its process stays up, every worker and the router task
\* being scheduled again and again.
NextUp ==
    \/ \E d \in AllIds, s \in ServiceIds : QueuePush(d, s)
    \/ \E d \in AllIds, s \in ServiceIds : RunPush(d, s)
    \/ \E d \in AllIds : Kill(d)
    \/ \E d \in AllIds : Dequeue(d)
    \/ \E d \in AllIds : SlotGranted(d)
    \/ \E d \in AllIds : SlotDenied(d)
    \/ \E d \in AllIds : BuildSucceeds(d)
    \/ \E d \in AllIds : RunAdmit(d)
    \/ \E d \in AllIds : StartRunning(d)
    \/ \E d \in AllIds : Fail(d)
    \/ \E d \in AllIds : Return(d)
    \/ \E d \in AllIds : EmitCrashed(d)
    \/ \E d \in AllIds : EmitCompleted(d)
    \/ \E d \in AllIds : EmitStopped(d)
    \/ RouterInsertLog
    \/ RouterUpdateDeployment
    \/ RouterPublish
    \/ Cleanup
    \/ StartupDone

FairSpec ==
    /\ Init
    /\ [][NextUp]_vars
    /\ WF_vars(RouterInsertLog)
    /\ WF_vars(RouterUpdateDeployment)
    /\ WF_vars(RouterPublish)
    /\ \A d \in AllIds : /\ WF_vars(Dequeue(d))
                          /\ WF_vars(EmitStopped(d))
                          /\ WF_vars(EmitCompleted(d))
                          /\ WF_vars(EmitCrashed(d))

\* ------------------------------------------------------------------------
\* The store under direct calls of its operations
\* ------------------------------------------------------------------------
StoreInsertDeployment(d, s, st, t, a) ==
    /\ d \notin DOMAIN deployments
    /\ deployments' = InsertDeployment(deployments,
            [id |-> d, service_id |-> s, state |-> st,
             last_update |-> t, address |-> a])
    /\ UNCHANGED <<catalog, ingress, capture, fanout, slots, services, logs, router, states, workers, startup>>

StoreCleanupInvalidStates ==
    /\ deployments' = CleanupInvalidStates(deployments)
    /\ UNCHANGED <<catalog, ingress, capture, fanout, slots, services, logs, router, states, workers, startup>>

StoreNext ==
    \/ \E d \in DeployIds, s \in ServiceIds, st \in States, t \in 1..MaxTime :
          \E a \in {None, Some(8000 + d)} : StoreInsertDeployment(d, s, st, t, a)
    \/ StoreCleanupInvalidStates

StoreSpec == Init /\ [][StoreNext]_vars

\* ------------------------------------------------------------------------
\* Services and their deployments under direct calls
\* ------------------------------------------------------------------------
\* A call op(arg) that returned Ok(value), or Err if not ok.
Returned(op, arg, ok, value) ==
    [op |-> op, arg |-> arg, ok |-> ok, value |-> value]

CallInsertDeployment(deployment) ==
    /\ deployments' = InsertDeployment(deployments, deployment)
    /\ ret' = Returned("insert_deployment", deployment,
                       InsertDeploymentOk(deployments, deployment), None)
    /\ UNCHANGED <<services, logs, secrets, resources, uuids, puts, look, ingress, capture, fanout, slots,
                   router, states, workers, startup>>

CallGetOrCreateService(name) ==
    /\ IF GetServiceByName(services, name) = None
       THEN uuids < MaxServices ELSE TRUE
    /\ LET r == GetOrCreateService(services, name, ServiceUuid(uuids + 1))
       IN /\ services' = r.services
          /\ ret' = Returned("get_or_create_service", name, TRUE,
                             Some(r.value))
          /\ uuids' = IF r.value.id = ServiceUuid(uuids + 1)
                      THEN uuids + 1 ELSE uuids
    /\ UNCHANGED <<deployments, logs, secrets, resources, puts, look, ingress, capture, fanout,
                   slots, router, states, workers, startup>>

CallDeleteService(id) ==
    /\ services' = DeleteService(services, id)
    /\ ret' = Returned("delete_service", id, TRUE, None)
    /\ UNCHANGED <<deployments, logs, secrets, resources, uuids, puts, look, ingress, capture, fanout,
                   slots, router, states, workers, startup>>

\* The deployments the callers of this section insert: of a service that
\* exists, Running or Stopped.
ServiceDeployments ==
    {[id |-> d, service_id |-> s.id, state |-> st, last_update |-> 1,
      address |-> None] :
        d \in DeployIds, s \in services, st \in {"Running", "Stopped"}}

ServiceNext ==
    \/ \E deployment \in ServiceDeployments : CallInsertDeployment(deployment)
    \/ \E name \in CatalogNames : CallGetOrCreateService(name)
    \/ \E id \in ServiceUuids : CallDeleteService(id)

ServiceSpec == Init /\ [][ServiceNext]_vars

\* ------------------------------------------------------------------------
\* Deployment rows under direct calls of insert_deployment and
\* get_deployment
\* ------------------------------------------------------------------------
CallGetDeployment(id) ==
    /\ LET r == GetDeployment(deployments, id)
       IN ret' = Returned("get_deployment", id, r.ok, r.value)
    /\ UNCHANGED <<store, secrets, resources, uuids, puts, look, ingress, capture, fanout, slots, router,
                   states, workers, startup>>

\* The deployments the callers of this section pass in.
RowStates == {"Queued", "Running"}

RowInputs ==
    {[id |-> d, service_id |-> s, state |-> st, last_update |-> t,
      address |-> IF bound THEN Some(8000 + d) ELSE None] :
        d \in DeployIds, s \in ServiceIds, st \in RowStates,
        t \in 1..MaxTime, bound \in BOOLEAN}

DeploymentNext ==
    \/ \E deployment \in RowInputs : CallInsertDeployment(deployment)
    \/ \E id \in DeployIds : CallGetDeployment(id)

DeploymentSpec == Init /\ [][DeploymentNext]_vars

\* ------------------------------------------------------------------------
\* Secrets and resources under direct calls
\* ------------------------------------------------------------------------
\* insert_secret: last_update is Utc::now(), each reading later than the one
\* before.
CallInsertSecret(service_id, key, value) ==
    /\ puts < MaxPuts
    /\ puts' = puts + 1
    /\ secrets' = InsertSecret(secrets,
            [service_id |-> service_id, key |-> key, value |-> value,
             last_update |-> puts + 1])
    /\ ret' = Returned("insert_secret",
                       [service_id |-> service_id, key |-> key, value |-> value],
                       TRUE, None)
    /\ UNCHANGED <<store, resources, uuids, look, ingress, capture, fanout, slots, router, states,
                   workers, startup>>

CallGetSecrets(service_id) ==
    /\ ret' = Returned("get_secrets", service_id, TRUE,
                       Some(GetSecrets(secrets, service_id)))
    /\ UNCHANGED <<store, secrets, resources, uuids, puts, look, ingress, capture, fanout, slots,
                   router, states, workers, startup>>

CallInsertResource(resource) ==
    /\ puts < MaxPuts
    /\ puts' = puts + 1
    /\ resources' = InsertResource(resources, resource)
    /\ ret' = Returned("insert_resource", resource, TRUE, None)
    /\ UNCHANGED <<store, secrets, uuids, look, ingress, capture, fanout, slots, router, states,
                   workers, startup>>

CallGetResources(service_id) ==
    /\ ret' = Returned("get_resources", service_id, TRUE,
                       Some(GetResources(resources, service_id)))
    /\ UNCHANGED <<store, secrets, resources, uuids, puts, look, ingress, capture, fanout, slots,
                   router, states, workers, startup>>

ResourceInputs ==
    {[service_id |-> s, type |-> ty, data |-> data] :
        s \in ServiceIds, ty \in ResourceTypes, data \in ResourceData}

SecretNext ==
    \/ \E s \in ServiceIds, i \in DOMAIN SecretKeys, v \in SecretValues :
          CallInsertSecret(s, SecretKeys[i], v)
    \/ \E s \in ServiceIds : CallGetSecrets(s)

SecretSpec == Init /\ [][SecretNext]_vars

ResourceNext ==
    \/ \E resource \in ResourceInputs : CallInsertResource(resource)
    \/ \E s \in ServiceIds : CallGetResources(s)

ResourceSpec == Init /\ [][ResourceNext]_vars

\* ------------------------------------------------------------------------
\* The capture layer on a registry of nested spans, with the router task
\* ------------------------------------------------------------------------
\* record as the layer calls it: it returns when the router task, waiting
\* in recv, has taken the log. The log carries the instant the layer read.
Accept(log) ==
    /\ Record(log)
    /\ taken' = Append(taken, log)
    /\ clock' = clock + 1

\* A span is made under the span parent (0: at the root): on_new_span runs,
\* with record inside it, before the span can be entered.
NewSpan(attrs, parent) ==
    /\ Len(spans) < MaxSpans
    /\ parent \in 0..Len(spans)
    /\ LET made == OnNewSpan(attrs, clock + 1)
       IN IF made = <<>>
          THEN UNCHANGED <<rpc, cur, states, taken, clock>>
          ELSE Accept(made[1])
    /\ spans' = Append(spans, [parent |-> parent,
                               details |-> ExtensionsInsert(attrs)])
    /\ UNCHANGED <<store, catalog, chan, emit, acked, senders, writes, cast,
                   heard, fanout, slots, workers, startup>>

\* An event is issued with span as its current span (0: outside every
\* span): on_event runs, with record inside it if it makes a log.
Event(span, fields) ==
    /\ Len(heard) < MaxEvents
    /\ span \in 0..Len(spans)
    /\ heard' = Append(heard, span)
    /\ LET made == OnEvent(spans, span, fields, clock + 1)
       IN IF made = <<>>
          THEN UNCHANGED <<rpc, cur, states, taken, clock>>
          ELSE Accept(made[1])
    /\ UNCHANGED <<store, catalog, chan, emit, acked, senders, writes, cast,
                   spans, fanout, slots, workers, startup>>

\* The spans the program makes: deployment scopes, a scope whose id does
\* not parse, and a span that declares neither id nor state.
SpanInputs ==
    {Scope(1, "Queued", None), Scope(1, "Building", None),
     Scope(2, "Running", Some(SocketToString(8002))),
     Scope(Garbage, "Queued", None),
     [fields |-> {"name"}, id |-> Garbage, state |-> "Queued",
      address |-> None]}

LayerNext ==
    \/ \E attrs \in SpanInputs, parent \in 0..MaxSpans :
            NewSpan(attrs, parent)
    \/ \E span \in 0..MaxSpans : Event(span, "{message}")
    \/ RouterInsertLog
    \/ RouterUpdateDeployment
    \/ RouterPublish

LayerSpec == Init /\ [][LayerNext]_vars

\* ------------------------------------------------------------------------
\* The ingress channel and the router task under direct calls of record,
\* with store calls that can fail
\* ------------------------------------------------------------------------
\* crossbeam_channel::bounded(0): the capacity of the ingress channel.
ChannelCap == 0

\* Variant: the channel is made with bounded(1).
HasRoomForOne(buffer) == Len(buffer) < 1

\* A send can leave its message in the channel's buffer and return.
HasRoom(buffer) == Len(buffer) < ChannelCap

\* Variant: the State arm ends after insert_log.
AfterInsertLogSkipsUpdate(log) == "publish"

\* Variant: both arms go on to update_deployment.
AfterInsertLogAlwaysUpdates(log) == "update"

\* match log.type: after insert_log the State arm goes on to
\* update_deployment, the Event arm is over.
AfterInsertLog(log) == IF log.type = "State" THEN "update" ELSE "publish"

\* Variant: the Result of the store call is unwrapped, so an error ends the
\* task.
AfterWriteUnwrap(next, ok) == IF ok THEN next ELSE "exit"

\* .unwrap_or_else(|error| error!(..)): an error is logged and the loop goes
\* on where it would have gone.
AfterWrite(next, ok) == next

\* Variant: the loop body sends the log to the broadcast channel first.
AfterRecvPublishes(log) == "publish"

\* while let Ok(log) = log_recv.recv(): the loop body starts with the match
\* arm's insert_log.
AfterRecv(log) == "insert"

\* A store call of the router on the log it holds, and how it ended.
Write(op, log, ok) == [op |-> op, timestamp |-> log.timestamp, ok |-> ok]

\* A thread calls record(log): Sender::send starts. The log carries the
\* instant its maker read, each reading later than the one before.
RecordCall(e, log) ==
    /\ senders
    /\ emit[e] = <<>>
    /\ clock < MaxLogs
    /\ clock' = clock + 1
    /\ emit' = [emit EXCEPT ![e] = <<[log EXCEPT !.timestamp = clock + 1]>>]
    /\ UNCHANGED <<store, catalog, capture, fanout, chan, acked, senders, writes, cast, taken, slots,
                   router, states, workers, startup>>

\* The send completes and record returns: the router task, waiting in
\* recv, takes the log; if it is busy, the log goes into the buffer when
\* that has room, and the send waits when it has none.
Handoff(e) ==
    /\ emit[e] # <<>>
    /\ IF rpc = "recv"
       THEN /\ cur' = emit[e]
            /\ rpc' = AfterRecv(emit[e][1])
            /\ chan' = chan
       ELSE /\ rpc # "exit"
            /\ HasRoom(chan)
            /\ chan' = Append(chan, emit[e][1])
            /\ UNCHANGED <<rpc, cur>>
    /\ emit' = [emit EXCEPT ![e] = <<>>]
    /\ acked' = acked \cup {emit[e][1]}
    /\ taken' = Append(taken, emit[e][1])
    /\ UNCHANGED <<store, catalog, capture, fanout, senders, writes, cast, clock, slots,
                   states, workers, startup>>

\* The store calls of the router task that failed.
Failures == {w \in writes : ~w.ok}

\* The match arm's insert_log, which succeeds or fails.
LoopInsertLog(ok) ==
    /\ rpc = "insert"
    /\ ok \/ Cardinality(Failures) < MaxFailures
    /\ logs' = IF ok
               THEN InsertLog(logs, IF cur[1].type = "State"
                                    THEN StateMarkerLog(cur[1])
                                    ELSE PersistenceLog(cur[1]))
               ELSE logs
    /\ writes' = writes \cup {Write("insert_log", cur[1], ok)}
    /\ rpc' = AfterWrite(AfterInsertLog(cur[1]), ok)
    /\ UNCHANGED <<deployments, services, catalog, capture, fanout, chan, emit, acked, senders, taken,
                   cast, clock, slots, cur, states, workers, startup>>

\* The State arm's update_deployment, which succeeds or fails.
LoopUpdateDeployment(ok) ==
    /\ rpc = "update"
    /\ ok \/ Cardinality(Failures) < MaxFailures
    /\ deployments' = IF ok
                      THEN UpdateDeployment(deployments,
                                            DeploymentStateFrom(cur[1]))
                      ELSE deployments
    /\ writes' = writes \cup {Write("update_deployment", cur[1], ok)}
    /\ rpc' = AfterWrite("publish", ok)
    /\ UNCHANGED <<services, logs, catalog, capture, fanout, chan, emit, acked, senders, cast, taken,
                   clock, slots, cur, states, workers, startup>>

\* The end of the loop body: the log is sent to the broadcast channel if it
\* has receivers; then recv, which takes a log that waits in the buffer.
\* Subscribers stay for the run or there are none.
LoopPublish(receiver_count) ==
    /\ rpc = "publish"
    /\ cast # <<>> => receiver_count = cast[1].receiver_count
    /\ cast' = Append(cast, [timestamp |-> cur[1].timestamp,
                             receiver_count |-> receiver_count,
                             sent |-> receiver_count > 0])
    /\ IF chan # <<>>
       THEN /\ cur' = <<Head(chan)>>
            /\ chan' = Tail(chan)
            /\ rpc' = AfterRecv(Head(chan))
       ELSE /\ cur' = <<>>
            /\ chan' = chan
            /\ rpc' = "recv"
    /\ UNCHANGED <<store, catalog, capture, fanout, emit, acked, senders, writes, clock, taken, slots,
                   states, workers, startup>>

\* The last Sender is dropped; no thread is inside record then.
DropSenders ==
    /\ senders
    /\ \A e \in Emitters : emit[e] = <<>>
    /\ senders' = FALSE
    /\ UNCHANGED <<store, catalog, capture, fanout, chan, emit, acked, writes, cast, clock, taken,
                   slots, router, states, workers, startup>>

\* recv returns Err on the empty channel without senders: the loop and the
\* task end.
LoopExit ==
    /\ rpc = "recv"
    /\ ~senders
    /\ chan = <<>>
    /\ rpc' = "exit"
    /\ UNCHANGED <<store, catalog, ingress, capture, fanout, slots, cur, states, workers,
                   startup>>

\* The logs direct callers of record pass in: events, and state logs with a
\* socket, without address, and with an address that is no socket.
\* Deployment 1 has a row, deployment 2 has none.
RecordInputs ==
    {[id |-> 1, state |-> "Queued", timestamp |-> 0, target |-> "tests",
      fields |-> "{message}", type |-> "Event", address |-> None]}
    \cup
    {[id |-> 1, state |-> "Running", timestamp |-> 0, target |-> "tests",
      fields |-> "null", type |-> "State", address |-> a] :
        a \in {Some(SocketToString(8001)), Some(<<"nowhere">>)}}
    \cup
    {[id |-> 2, state |-> "Stopped", timestamp |-> 0, target |-> "tests",
      fields |-> "null", type |-> "State", address |-> None]}

RouterNext ==
    \/ clock = 0 /\ StoreInsertDeployment(1, "s1", "Queued", 0, None)
    \/ \E e \in Emitters, log \in RecordInputs : RecordCall(e, log)
    \/ \E e \in Emitters : Handoff(e)
    \/ \E ok \in BOOLEAN : LoopInsertLog(ok)
    \/ \E ok \in BOOLEAN : LoopUpdateDeployment(ok)
    \/ \E receiver_count \in 0..1 : LoopPublish(receiver_count)
    \/ DropSenders
    \/ LoopExit

\* The router task and the threads inside record keep being scheduled.
RouterSpec ==
    /\ Init
    /\ [][RouterNext]_vars
    /\ WF_vars(\E ok \in BOOLEAN : LoopInsertLog(ok))
    /\ WF_vars(\E ok \in BOOLEAN : LoopUpdateDeployment(ok))
    /\ WF_vars(\E receiver_count \in 0..1 : LoopPublish(receiver_count))
    /\ WF_vars(LoopExit)
    /\ \A e \in Emitters : WF_vars(Handoff(e))

\* ------------------------------------------------------------------------
\* The broadcast channel, its receivers and the router task
\* ------------------------------------------------------------------------
\* broadcast::channel(1): the number of values the channel retains.
BroadcastCap == 1

\* The values sent on the broadcast channel so far.
SentCount == Len(SelectSeq(cast, LAMBDA c : c.sent))

\* Sender::receiver_count: the receivers that are alive.
ReceiverCount == Cardinality({r \in DOMAIN subs : subs[r].alive})

\* Variant: a send waits for room while a receiver has yet to read the
\* oldest value, as a bounded queue would.
SendReadyWhenRead(buffer, receivers) ==
    IF Len(buffer) < BroadcastCap
    THEN TRUE
    ELSE \A r \in DOMAIN receivers :
            receivers[r].alive => receivers[r].next > buffer[1].pos

\* broadcast::Sender::send returns at once, whatever the buffer holds and
\* wherever the receivers are.
SendReady(buffer, receivers) == TRUE

\* broadcast::Sender::send with a receiver alive: the value takes the next
\* position, and the oldest value goes when the buffer is full.
Send(buffer, value) ==
    LET added == Append(buffer, value)
    IN IF Len(added) > BroadcastCap THEN Tail(added) ELSE added

\* get_log_subscriber: a receiver that sees the values sent from now on.
Subscribe ==
    /\ Len(subs) < MaxSubs
    /\ subs' = Append(subs, [alive |-> TRUE, next |-> SentCount + 1,
                             lagged |-> FALSE, seen |-> 0])
    /\ UNCHANGED <<store, catalog, ingress, capture, stream, slots, router,
                   states, workers, startup>>

\* Receiver::recv with something to return: Lagged, with a jump to the
\* oldest value retained, when the value it was to read is gone; that
\* value otherwise.
SubRecv(r) ==
    /\ r \in DOMAIN subs
    /\ subs[r].alive
    /\ LET oldest == IF stream = <<>> THEN SentCount + 1 ELSE stream[1].pos
       IN IF subs[r].next < oldest
          THEN subs' = [subs EXCEPT ![r].next = oldest, ![r].lagged = TRUE]
          ELSE \E i \in DOMAIN stream :
                  /\ stream[i].pos = subs[r].next
                  /\ subs' = [subs EXCEPT ![r].next = @ + 1,
                                          ![r].lagged = FALSE,
                                          ![r].seen = stream[i].timestamp]
    /\ UNCHANGED <<store, catalog, ingress, capture, stream, slots, router,
                   states, workers, startup>>

\* The receiver is dropped.
SubDrop(r) ==
    /\ r \in DOMAIN subs
    /\ subs[r].alive
    /\ subs' = [subs EXCEPT ![r].alive = FALSE]
    /\ UNCHANGED <<store, catalog, ingress, capture, stream, slots, router,
                   states, workers, startup>>

\* The end of the loop body, first half: receiver_count is read.
LoopCount ==
    /\ rpc = "publish"
    /\ cast' = Append(cast, [timestamp |-> cur[1].timestamp,
                             receiver_count |-> ReceiverCount,
                             sent |-> FALSE])
    /\ rpc' = "send"
    /\ UNCHANGED <<store, catalog, chan, emit, acked, senders, writes, clock,
                   taken, capture, fanout, slots, cur, states, workers,
                   startup>>

\* The end of the loop body, second half: with receiver_count > 0 the log
\* is sent, and an error of the send (no receiver is left) is logged; then
\* recv.
LoopSend ==
    /\ rpc = "send"
    /\ SendReady(stream, subs)
    /\ IF cast[Len(cast)].receiver_count > 0 /\ ReceiverCount > 0
       THEN /\ stream' = Send(stream, [pos |-> SentCount + 1,
                                       timestamp |-> cur[1].timestamp])
            /\ cast' = [cast EXCEPT ![Len(cast)].sent = TRUE]
       ELSE UNCHANGED <<stream, cast>>
    /\ IF chan # <<>>
       THEN /\ cur' = <<Head(chan)>>
            /\ chan' = Tail(chan)
            /\ rpc' = AfterRecv(Head(chan))
       ELSE /\ cur' = <<>>
            /\ chan' = chan
            /\ rpc' = "recv"
    /\ UNCHANGED <<store, catalog, emit, acked, senders, writes, clock, taken,
                   capture, subs, slots, states, workers, startup>>

BroadcastNext ==
    \/ \E log \in {x \in RecordInputs :
                        x.id = 1 /\ x.address # Some(<<"nowhere">>)} :
            RecordCall("e1", log)
    \/ Handoff("e1")
    \/ LoopInsertLog(TRUE)
    \/ LoopUpdateDeployment(TRUE)
    \/ LoopCount
    \/ LoopSend
    \/ Subscribe
    \/ \E r \in 1..MaxSubs : SubRecv(r)
    \/ \E r \in 1..MaxSubs : SubDrop(r)
    \/ DropSenders
    \/ LoopExit

\* The router task and the thread inside record keep being scheduled; the
\* receivers read when they please.
BroadcastSpec ==
    /\ Init
    /\ [][BroadcastNext]_vars
    /\ WF_vars(LoopInsertLog(TRUE))
    /\ WF_vars(LoopUpdateDeployment(TRUE))
    /\ WF_vars(LoopCount)
    /\ WF_vars(LoopSend)
    /\ WF_vars(LoopExit)
    /\ WF_vars(Handoff("e1"))

\* ------------------------------------------------------------------------
\* get_or_create_service called by several tasks at the same time
\* ------------------------------------------------------------------------
\* Variant: the services table accepts a second row of a name.
InsertServiceAnyName(svcs, service) ==
    [ok |-> TRUE, services |-> svcs \cup {service}]

\* INSERT INTO services (id, name) VALUES (?, ?): the table holds one row
\* per name, so the statement fails when a row of that name exists.
InsertService(svcs, service) ==
    IF \E s \in svcs : s.name = service.name
    THEN [ok |-> FALSE, services |-> svcs]
    ELSE [ok |-> TRUE, services |-> svcs \cup {service}]

\* The first store operation of get_or_create_service: get_service_by_name.
\* If it finds a row, the call returns it; if not, the call makes a Service
\* with a new id and goes on to the INSERT.
LookupService(c, name) ==
    /\ look[c].at # "insert"
    /\ LET found == GetServiceByName(services, name)
       IN IF found # None
          THEN /\ look' = [look EXCEPT ![c] = [at |-> "ok", name |-> name,
                                               value |-> found]]
               /\ uuids' = uuids
          ELSE /\ uuids < MaxServices
               /\ uuids' = uuids + 1
               /\ look' = [look EXCEPT ![c] =
                      [at |-> "insert", name |-> name,
                       value |-> Some([id |-> ServiceUuid(uuids + 1),
                                       name |-> name])]]
    /\ UNCHANGED <<store, secrets, resources, ret, puts, ingress, capture,
                   fanout, slots, router, states, workers, startup>>

\* The second store operation: the INSERT, awaited with `?`; the call
\* returns the service it made, or the error of the statement.
InsertServiceStep(c) ==
    /\ look[c].at = "insert"
    /\ LET service == CHOOSE s \in look[c].value : TRUE
           r == InsertService(services, service)
       IN /\ services' = r.services
          /\ look' = [look EXCEPT ![c].at = IF r.ok THEN "ok" ELSE "err",
                                  ![c].value = IF r.ok THEN Some(service)
                                               ELSE None]
    /\ UNCHANGED <<deployments, logs, secrets, resources, ret, uuids, puts,
                   ingress, capture, fanout, slots, router, states, workers,
                   startup>>

RaceNext ==
    \/ \E c \in Callers, name \in CatalogNames : LookupService(c, name)
    \/ \E c \in Callers : InsertServiceStep(c)

RaceSpec == Init /\ [][RaceNext]_vars

\* ------------------------------------------------------------------------
\* Properties
\* ------------------------------------------------------------------------
Last(seq) == seq[Len(seq)]

RouterIdle == rpc = "recv"

Rows == DOMAIN deployments

\* The persisted state logs of deployment d, oldest first.
StateLogsOf(d) == SelectSeq(logs[d], LAMBDA l : l.fields = STATE_MESSAGE)

\* The edges of the documented state graph.
StateGraph ==
    {<<"Queued", "Building">>, <<"Building", "Built">>, <<"Built", "Loading">>,
     <<"Loading", "Running">>} \cup ({"Running"} \X Terminal)

Steps(d) == {<<states[d][i].state, states[d][i + 1].state>> :
                i \in 1..(Len(states[d]) - 1)}

\* C1: each service has at most one deployment whose persisted state is
\* Running.
AtMostOneRunningPerService ==
    \A s \in ServiceIds :
        Cardinality({d \in Rows : /\ deployments[d].service_id = s
                                  /\ deployments[d].state = "Running"}) <= 1

StoppedByCleanup(d) ==
    /\ deployments[d].state = "Stopped"
    /\ Last(StateLogsOf(d)).state \in Transient

AddressOnlyWhileBound ==
    \A d \in Rows :
        /\ deployments[d].address # None
              => deployments[d].state \in {"Loading", "Running"}
        /\ deployments[d].state \in Terminal => deployments[d].address = None

\* The Running rows of the service named name that hold socket a.
RunningAt(name, a) ==
    {d \in Rows : /\ deployments[d].state = "Running"
                  /\ ServiceName(deployments[d].service_id) = name
                  /\ deployments[d].address = Some(SocketToString(a))}

\* C6: get_address_for_service(n) never fails, and returns Some(a) exactly
\* when a Running row of service n has address a.
AddressLookupMatchesRunningRow ==
    \A name \in ServiceNames :
        \A r \in GetAddressForService(deployments, services, name) :
            /\ r.ok
            /\ \A a \in Sockets : r.value = Some(a) <=> RunningAt(name, a) # {}

\* What cleanup_invalid_states is to make of a state.
Cleaned(state) == IF state \in Transient THEN "Stopped" ELSE state

\* C7: cleanup_invalid_states turns Queued, Building, Built and Loading into
\* Stopped, leaves every other state alone, leaves no transient row behind
\* and adds or removes no row.
CleanupMapsTransientToStopped ==
    [][(phase = "cleanup" /\ phase' = "resume") =>
          /\ DOMAIN deployments' = Rows
          /\ \A d \in Rows :
                /\ deployments'[d].state = Cleaned(deployments[d].state)
                /\ deployments'[d].state \notin Transient]_vars

\* Right after the cleanup of a restart: one row was stopped in mid-flight,
\* another is still Running.
CleanupMapsTransientToStoppedWitness ==
    /\ phase = "resume"
    /\ restarts = 1
    /\ \E d \in Rows : StateLogsOf(d) # <<>> /\ StoppedByCleanup(d)
    /\ \E d \in Rows : deployments[d].state = "Running"

\* C8: a scope whose id is nil, or no UUID, yields no log: none reaches the
\* recorder or the router, none is persisted, and the nil row is never
\* updated.
NilScopeDropped ==
    /\ states[NilId] = <<>>
    /\ logs[NilId] = <<>>
    /\ cur # <<>> => cur[1].id # NilId
    /\ NilId \in Rows =>
          /\ deployments[NilId].state \in {"Queued", "Stopped"}
          /\ deployments[NilId].last_update = 0
          /\ deployments[NilId].address = None

\* A submission under the nil id has gone through its scopes up to Running.
NilScopeDroppedWitness ==
    /\ pc[NilId] = "running"
    /\ NilId \in Rows

\* The state logs of d that report a terminal state.
TerminalLogs(d) == SelectSeq(states[d], LAMBDA l : l.state \in Terminal)

\* C9: a kill of a deployment whose token is fired already, or that no queue
\* owns any more, changes nothing and emits no state log; a deployment gets
\* one terminal state log however often it is killed.
KillIdempotent ==
    /\ [][\A d \in AllIds :
            (killed[d] \/ ~Registered(d)) /\ Kill(d) => UNCHANGED vars]_vars
    /\ [][\A d \in AllIds : Len(TerminalLogs(d))' <= 1]_vars

\* A killed deployment has stopped, so that a further kill finds it terminal.
KillIdempotentWitness ==
    \E d \in Rows : /\ killed[d]
                    /\ pc[d] = "done"
                    /\ states[d] # <<>>
                    /\ Last(states[d]).state = "Stopped"
                    /\ deployments[d].state = "Stopped"
                    /\ RouterIdle

\* The terminal state of d has been reported and, if d has a row, persisted.
Ended(d) ==
    /\ pc[d] = "done"
    /\ Last(states[d]).state \in Terminal
    /\ d \in Rows => deployments[d].state \in Terminal

\* C10: a killed deployment that a queue owns ends in a terminal state:
\* Stopped unless its program had failed, then Crashed; a killed Running
\* deployment that has not failed gets one more state log, Stopped without
\* address, and none after it.
KillEndsDeployment ==
    /\ \A d \in DeployIds : (killed[d] /\ Registered(d)) ~> Ended(d)
    /\ [](\A d \in DeployIds :
            (killed[d] /\ pc[d] = "done") =>
                Last(states[d]).state =
                    (IF outcome[d] = "crashed" THEN "Crashed" ELSE "Stopped"))
    /\ [][\A d \in DeployIds :
            /\ (pc[d] = "running" /\ killed[d] /\ outcome[d] # "crashed"
                    /\ states'[d] # states[d])
                  => /\ states'[d] = Append(states[d],
                            [state |-> "Stopped", has_address |-> FALSE])
                     /\ pc'[d] = "done"
            /\ pc[d] = "done" => states'[d] = states[d]]_vars

\* A Running deployment was killed and has stopped, its row without address.
KillEndsDeploymentWitness ==
    \E d \in Rows :
        /\ killed[d]
        /\ Len(states[d]) >= 2
        /\ states[d][Len(states[d]) - 1].state = "Running"
        /\ Last(states[d]) = [state |-> "Stopped", has_address |-> FALSE]
        /\ deployments[d].state = "Stopped"
        /\ deployments[d].address = None

StateNames(d) == [i \in 1..Len(states[d]) |-> states[d][i].state]

\* The state log of a scope that carries no address.
Plain(state) == [state |-> state, has_address |-> FALSE]

\* The state log of a scope that carries the bound socket.
Bound(state) == [state |-> state, has_address |-> TRUE]

\* The terminal state a run of d ends in, as things stand.
RunEnd(d) ==
    IF outcome[d] = "crashed" THEN "Crashed"
    ELSE IF killed[d] THEN "Stopped" ELSE "Completed"

\* C11: a deployment in Running whose program has returned or failed, or
\* that was killed, gets one terminal state log and no other: Crashed after
\* a failure, Stopped after a kill, Completed after a clean return; the row
\* then holds that state.
RunEndsOnce ==
    /\ \A d \in DeployIds :
          (pc[d] = "running" /\ (outcome[d] # "none" \/ killed[d])) ~> Ended(d)
    /\ [][\A d \in DeployIds :
            /\ (pc[d] = "running" /\ states'[d] # states[d]) =>
                  /\ states'[d] = Append(states[d], Plain(RunEnd(d)))
                  /\ RunEnd(d) = "Completed" => outcome[d] = "ok"
                  /\ pc'[d] = "done"
            /\ Len(TerminalLogs(d))' <= 1]_vars
    /\ [](\A d \in DeployIds \cap Rows :
            (pc[d] = "done" /\ RouterIdle) =>
                deployments[d].state = Last(states[d]).state)

\* One deployment ran and completed, another ran and crashed, both persisted.
RunEndsOnceWitness ==
    /\ RouterIdle
    /\ \E d, e \in Rows :
          /\ Len(states[d]) >= 2 /\ Len(states[e]) >= 2
          /\ states[d][Len(states[d]) - 1].state = "Running"
          /\ Last(states[d]).state = "Completed"
          /\ deployments[d].state = "Completed"
          /\ states[e][Len(states[e]) - 1].state = "Running"
          /\ Last(states[e]).state = "Crashed"
          /\ deployments[e].state = "Crashed"

QueuedToLoading ==
    <<Plain("Queued"), Plain("Building"), Plain("Built"), Bound("Loading")>>

BuiltToLoading == <<Plain("Built"), Bound("Loading")>>

\* C12: a deployment that came through the build queue and whose program
\* panics during load has the state logs Queued, Building, Built, Loading,
\* Crashed (only Loading with an address) and never a Running one.
LoadPanicCrashes ==
    /\ [](\A d \in DeployIds :
            pc[d] = "loading" => states[d] \in {QueuedToLoading, BuiltToLoading})
    /\ [][\A d \in DeployIds :
            (pc[d] = "loading" /\ outcome[d] = "crashed"
                 /\ states'[d] # states[d])
               => /\ states'[d] = Append(states[d], Plain("Crashed"))
                  /\ pc'[d] = "done"]_vars
    /\ \A d \in DeployIds :
          (pc[d] = "loading" /\ outcome[d] = "crashed")
              ~> (pc[d] = "done" /\ Last(states[d]) = Plain("Crashed"))
    /\ [][\A d \in DeployIds : pc[d] = "done" => pc'[d] = "done"
                                                 /\ states'[d] = states[d]]_vars

\* The sequence of the main-panic scenario, persisted.
LoadPanicCrashesWitness ==
    \E d \in Rows :
        /\ states[d] = Append(QueuedToLoading, Plain("Crashed"))
        /\ RouterIdle
        /\ deployments[d].state = "Crashed"

AddressIffBound ==
    /\ \A d \in AllIds : \A i \in 1..Len(states[d]) :
          states[d][i].has_address <=> states[d][i].state \in {"Loading", "Running"}
    /\ (cur # <<>> /\ cur[1].type = "State") =>
          /\ cur[1].address # None <=> cur[1].state \in {"Loading", "Running"}
          /\ (cur[1].state = "Running" /\ rpc = "insert" /\ cur[1].id \in Rows) =>
                /\ deployments[cur[1].id].state = "Loading"
                /\ deployments[cur[1].id].address = cur[1].address

\* The Running state log of a row in Loading has just reached the router,
\* and another deployment has ended.
AddressIffBoundWitness ==
    /\ rpc = "insert"
    /\ cur[1].state = "Running"
    /\ cur[1].id \in Rows
    /\ \E e \in AllIds : states[e] # <<>> /\ Last(states[e]).state \in Terminal

StartupResumesRunning ==
    [][/\ (phase = "cleanup" /\ phase' = "resume") =>
            /\ \A d \in AllIds : pc[d] = "none"
            /\ \A d \in Rows : deployments'[d].state \notin Transient
            /\ {resumeQ'[i] : i \in 1..Len(resumeQ')} =
                  {d \in Rows : deployments[d].state = "Running"}
            /\ \A i, j \in 1..Len(resumeQ') :
                  i < j => /\ resumeQ'[i] # resumeQ'[j]
                           /\ deployments'[resumeQ'[i]].last_update
                                 <= deployments'[resumeQ'[j]].last_update
       /\ (phase = "resume" /\ resumeQ' # resumeQ) =>
            /\ resumeQ # <<>>
            /\ resumeQ' = Tail(resumeQ)
            /\ pc[resumeQ[1]] = "none"
            /\ pc'[resumeQ[1]] = "built"
            /\ states'[resumeQ[1]] = Append(states[resumeQ[1]], Plain("Built"))
       /\ (phase = "resume" /\ phase' # "resume") =>
            phase' = "up" /\ resumeQ = <<>>
       /\ \A d \in AllIds :
            (phase # "up" /\ pc[d] = "none" /\ pc'[d] # "none") =>
                phase = "resume" /\ resumeQ # <<>> /\ d = resumeQ[1]
       /\ (phase # "cleanup" /\ rpc # "update") =>
            \A d \in Rows : deployments'[d] = deployments[d]]_vars

\* Startup is over after a restart that found two Running rows with different
\* last_update; both have been re-submitted.
StartupResumesRunningWitness ==
    /\ phase = "up"
    /\ restarts = 1
    /\ \A d \in DeployIds : /\ d \in Rows
                            /\ <<"Running", "Built">> \in Steps(d)
    /\ \E d, e \in DeployIds :
          StateLogsOf(d)[5].timestamp < StateLogsOf(e)[5].timestamp

\* C17: at admission the run queue kills every other deployment of the
\* service whose row is Running, and the admitted deployment enters Running
\* only when the rows of all of them are terminal.
AdmissionKillsPredecessors ==
    [][\A d \in AllIds :
          /\ (pc[d] = "built" /\ pc'[d] = "loading") =>
                LET active == {x \in Rows \ {d} :
                                  /\ deployments[x].service_id = svc[d]
                                  /\ deployments[x].state = "Running"}
                IN /\ preds'[d] = active
                   /\ \A x \in active : Registered(x) => killed'[x]
          /\ (pc[d] = "loading" /\ pc'[d] = "running") =>
                \A x \in preds[d] :
                    x \in Rows /\ deployments[x].state \in Terminal]_vars

\* A deployment runs after the one it found Running was killed and stopped.
AdmissionKillsPredecessorsWitness ==
    \E d \in Rows : \E x \in preds[d] :
        /\ pc[d] = "running"
        /\ deployments[d].state = "Running"
        /\ killed[x]
        /\ deployments[x].state = "Stopped"

DeniedSlotStops ==
    /\ [](\A d \in DeployIds :
            slots[d].asked = "denied" =>
                /\ states[d] = <<Plain("Queued"), Plain("Stopped")>>
                /\ pc[d] \in {"done", "none"}
                /\ RouterIdle => deployments[d].state = "Stopped")
    /\ [][\A d \in AllIds :
            (slots'[d].asked = "denied" /\ slots[d].asked # "denied") =>
                /\ pc[d] = "admit"
                /\ pc'[d] = "done"]_vars

\* A denied build, stopped and persisted.
DeniedSlotStopsWitness ==
    \E d \in Rows :
        /\ slots[d].asked = "denied"
        /\ RouterIdle
        /\ deployments[d].state = "Stopped"
        /\ Len(StateLogsOf(d)) = 2

HasRunning(s) ==
    \E d \in Rows : /\ deployments[d].service_id = s.id
                     /\ deployments[d].state = "Running"

InsertCollisionFails ==
    [][(ret'.op = "insert_deployment" /\ ret'.arg.id \in Rows) =>
          /\ ~ret'.ok
          /\ deployments' = deployments
          /\ UNCHANGED <<services, logs, secrets, resources>>]_vars

\* An insert has just been refused for an id that has a row.
InsertCollisionFailsWitness ==
    /\ ret.op = "insert_deployment"
    /\ ~ret.ok
    /\ Rows = DeployIds

SecretsUnder(rows, service_id, key) ==
    SelectSeq(GetSecrets(rows, service_id), LAMBDA r : r.key = key)

\* C24: after insert_secret(s, k, v), get_secrets(s) holds one secret of key
\* k, with value v, whatever was stored under (s, k) before; what
\* get_secrets returns under every other key and for every other service is
\* as it was.
SecretUpsert ==
    [][ret'.op = "insert_secret" =>
          LET a == ret'.arg
              got == SecretsUnder(secrets', a.service_id, a.key)
          IN /\ ret'.ok
             /\ Len(got) = 1
             /\ got[1].value = a.value
             /\ \A s \in ServiceIds : \A i \in DOMAIN SecretKeys :
                   <<s, SecretKeys[i]>> # <<a.service_id, a.key>> =>
                       SecretsUnder(secrets', s, SecretKeys[i])
                           = SecretsUnder(secrets, s, SecretKeys[i])]_vars

\* Three inserts have left two secrets, the first and the third: the third
\* replaced the second under its key, and get_secrets has returned its value.
SecretUpsertWitness ==
    /\ ret.op = "get_secrets"
    /\ puts = 3
    /\ Len(secrets) = 2
    /\ \E j \in DOMAIN secrets : secrets[j].last_update = 1
    /\ \E r \in ret.value :
          \E i \in DOMAIN r : /\ r[i].value = "value1_updated"
                              /\ r[i].last_update = 3

\* The resources get_resources returns for a service under one type.
ResourcesUnder(rows, service_id, type) ==
    SelectSeq(GetResources(rows, service_id), LAMBDA r : r.type = type)

\* C25: after insert_resource(s, t, d), get_resources(s) holds one resource
\* of type t, with data d, whatever was stored under (s, t) before; what
\* get_resources returns under every other type and for every other service
\* is as it was.
ResourceReplace ==
    [][ret'.op = "insert_resource" =>
          LET a == ret'.arg
              got == ResourcesUnder(resources', a.service_id, a.type)
          IN /\ ret'.ok
             /\ got = <<a>>
             /\ \A s \in ServiceIds : \A ty \in ResourceTypes :
                   <<s, ty>> # <<a.service_id, a.type>> =>
                       ResourcesUnder(resources', s, ty)
                           = ResourcesUnder(resources, s, ty)]_vars

\* Three inserts have left two resources of one service, one of them having
\* replaced a resource of its type, and get_resources has returned both.
ResourceReplaceWitness ==
    /\ ret.op = "get_resources"
    /\ puts = 3
    /\ \E r \in ret.value : Len(r) = 2 /\ r = resources /\ r[2].data = "foo"

\* The service a get_or_create_service call returned.
ServiceOf(r) == CHOOSE s \in r.value : TRUE

\* C26: get_or_create_service(name) returns a service of that name that is
\* in the table; if the table held one already it returns that one and adds
\* nothing, so a call repeated with the same name returns the same id; the
\* table then holds one service of that name, and no two services ever share
\* a name or an id.
GetOrCreateServiceIdempotent ==
    /\ [][ret'.op = "get_or_create_service" =>
            LET service == ServiceOf(ret') IN
            /\ ret'.ok
            /\ service.name = ret'.arg
            /\ service \in services'
            /\ Cardinality({s \in services' : s.name = ret'.arg}) = 1
            /\ (\E s \in services : s.name = ret'.arg) =>
                  service \in services /\ services' = services
            /\ (ret.op = "get_or_create_service" /\ ret.arg = ret'.arg) =>
                  service.id = ServiceOf(ret).id]_vars
    /\ [](\A s, u \in services : (s.name = u.name \/ s.id = u.id) => s = u)

\* A call has returned a service that an earlier call made, a later service
\* having been made in between.
GetOrCreateServiceIdempotentWitness ==
    /\ ret.op = "get_or_create_service"
    /\ ServiceOf(ret).id = ServiceUuid(3)
    /\ uuids = 4

\* The router task has made the store call op on the log it holds, with
\* outcome ok, in this step.
Wrote(op, ok) ==
    /\ cur # <<>>
    /\ Write(op, cur[1], ok) \in writes' \ writes

\* The address column a state log's address leads to: the socket's string,
\* or null without address or with one that is no socket.
ParsedColumn(log) ==
    IF \E a \in Sockets : log.address = Some(SocketToString(a))
    THEN log.address ELSE None

\* C27: for each log the router task takes and the store accepts: an Event
\* log is inserted as it is, fields included, and its arm updates no
\* deployment row; a State log is inserted with target "" and fields
\* "NEW STATE", and the row of the log's id gets the log's state, the log's
\* timestamp as last_update and the log's address parsed as a socket (null
\* without address), every other row staying as it is.
RouterPersistsLog ==
    [][/\ Wrote("insert_log", TRUE) =>
            /\ logs' = [logs EXCEPT ![cur[1].id] = Append(@,
                    [id |-> cur[1].id, timestamp |-> cur[1].timestamp,
                     state |-> cur[1].state,
                     target |-> IF cur[1].type = "Event"
                                THEN cur[1].target ELSE "",
                     fields |-> IF cur[1].type = "Event"
                                THEN cur[1].fields ELSE STATE_MESSAGE])]
            /\ deployments' = deployments
            /\ rpc' = IF cur[1].type = "Event" THEN "publish" ELSE "update"
       /\ (cur # <<>> /\ cur[1].type = "Event" /\ rpc' # rpc) =>
            /\ deployments' = deployments
            /\ rpc' # "update"
       /\ Wrote("update_deployment", TRUE) =>
            /\ cur[1].type = "State"
            /\ DOMAIN deployments' = DOMAIN deployments
            /\ \A d \in DOMAIN deployments :
                  deployments'[d] =
                    IF d = cur[1].id
                    THEN [service_id |-> deployments[d].service_id,
                          state |-> cur[1].state,
                          last_update |-> cur[1].timestamp,
                          address |-> ParsedColumn(cur[1])]
                    ELSE deployments[d]
            /\ logs' = logs]_vars

\* The router task has inserted an event log with its fields and a marker
\* for a state log, and has set deployment 1's row to Running at an address
\* from the state log.
RouterPersistsLogWitness ==
    /\ \E i \in DOMAIN logs[1] :
          logs[1][i].fields = "{message}" /\ logs[1][i].target = "tests"
    /\ \E i \in DOMAIN logs[1] :
          /\ logs[1][i].fields = STATE_MESSAGE /\ logs[1][i].target = ""
          /\ 1 \in DOMAIN deployments
          /\ deployments[1].state = "Running"
          /\ deployments[1].last_update = logs[1][i].timestamp
          /\ deployments[1].address = Some(SocketToString(8001))

\* The router task has sent, or found nobody to send to, the log of
\* timestamp ts at the end of the loop body.
Published(ts) == \E i \in DOMAIN cast : cast[i].timestamp = ts

\* C28: an error of a store call inside the router task is swallowed. A
\* failed insert_log changes nothing and leaves the loop where a successful
\* one would: at update_deployment for a State log, which is then attempted,
\* at the broadcast for an Event log; a failed update_deployment changes
\* nothing and leads to the broadcast; the broadcast step comes for the log
\* whatever failed, and sends it when there are receivers; the task ends
\* only on the closed channel, never on a failure; and a log a thread is
\* handing over is still taken afterwards.
RouterSwallowsErrors ==
    /\ [][/\ Wrote("insert_log", FALSE) =>
               /\ logs' = logs /\ deployments' = deployments
               /\ rpc' = IF cur[1].type = "State" THEN "update" ELSE "publish"
          /\ Wrote("update_deployment", FALSE) =>
               /\ logs' = logs /\ deployments' = deployments
               /\ rpc' = "publish"
          /\ (rpc = "publish" /\ rpc' # rpc) =>
               /\ Len(cast') = Len(cast) + 1
               /\ cast'[Len(cast')].timestamp = cur[1].timestamp
               /\ cast'[Len(cast')].sent =
                       (cast'[Len(cast')].receiver_count > 0)
               /\ rpc' \in {"recv", "insert"}
          /\ (rpc' = "exit" /\ rpc # "exit") =>
               rpc = "recv" /\ ~senders /\ chan = <<>>]_vars
    /\ \A ts \in 1..MaxLogs :
          /\ (\E w \in Failures : w.timestamp = ts) ~> Published(ts)
          /\ (/\ cur # <<>> /\ cur[1].timestamp = ts /\ cur[1].type = "State"
              /\ Write("insert_log", cur[1], FALSE) \in writes)
                ~> (\E ok \in BOOLEAN :
                      [op |-> "update_deployment", timestamp |-> ts,
                       ok |-> ok] \in writes)
    /\ \A e \in Emitters :
          (emit[e] # <<>> /\ Failures # {}) ~> (emit[e] = <<>>)

\* Both store calls have failed for a state log, the log was sent to the
\* subscribers, and the router task has gone on to write a later log.
RouterSwallowsErrorsWitness ==
    \E ts \in 1..MaxLogs :
        /\ Write("insert_log", [timestamp |-> ts], FALSE) \in writes
        /\ Write("update_deployment", [timestamp |-> ts], FALSE) \in writes
        /\ \E i \in DOMAIN cast : cast[i].timestamp = ts /\ cast[i].sent
        /\ \E w \in writes : w.timestamp > ts /\ w.ok

\* The timestamps of the logs the router task has taken from the channel:
\* the one it holds and the ones it has written.
Received ==
    {cur[i].timestamp : i \in DOMAIN cur} \cup {w.timestamp : w \in writes}

\* C29: the ingress channel is a rendezvous. Nothing ever waits in its
\* buffer, and no log whose record call has returned is still to be
\* received by the router task; a record call returns only in the step in
\* which the router task, waiting in recv, takes its log; and while the
\* router task is busy with a log, every thread inside record stays there.
RendezvousHandOff ==
    /\ [](/\ chan = <<>>
          /\ Cardinality({log \in acked :
                            log.timestamp \notin Received}) = 0)
    /\ [][\A e \in Emitters :
            /\ (emit[e] # <<>> /\ emit'[e] = <<>>) =>
                    /\ rpc = "recv"
                    /\ rpc' = "insert"
                    /\ cur' = emit[e]
                    /\ acked' = acked \cup {emit[e][1]}
            /\ (emit[e] # <<>> /\ rpc # "recv") => emit'[e] = emit[e]]_vars

\* Both threads are inside record while the router task, which took an
\* earlier log whose record call has returned, is at update_deployment.
RendezvousHandOffWitness ==
    /\ rpc = "update"
    /\ \A e \in Emitters : emit[e] # <<>>
    /\ \E log \in acked : cur = <<log>>

\* The router task is through with a log: insert_log was called on it and,
\* having succeeded, left its row in the logs table; update_deployment was
\* called on it if it is a state log; the end of the loop body was reached.
Flushed(log) ==
    /\ \E ok \in BOOLEAN :
          /\ Write("insert_log", log, ok) \in writes
          /\ ok => \E i \in DOMAIN logs[log.id] :
                      logs[log.id][i].timestamp = log.timestamp
    /\ log.type = "State" =>
          \E ok \in BOOLEAN : Write("update_deployment", log, ok) \in writes
    /\ Published(log.timestamp)

\* C30: once the senders of the ingress channel are dropped, the router
\* task ends; it ends only from recv on the closed and empty channel, and
\* when it has ended every log whose record call returned is through: its
\* store calls were made (and succeeded or had their error logged). After
\* its end the task writes nothing.
ShutdownFlush ==
    /\ (~senders) ~> (rpc = "exit")
    /\ [](rpc = "exit" => \A log \in acked : Flushed(log))
    /\ [][/\ (rpc' = "exit" /\ rpc # "exit") =>
                /\ ~senders
                /\ rpc = "recv" /\ cur = <<>> /\ chan = <<>>
                /\ \A e \in Emitters : emit[e] = <<>>
          /\ rpc = "exit" =>
                /\ rpc' = "exit"
                /\ logs' = logs /\ writes' = writes /\ cast' = cast]_vars

\* The router task has ended after all the logs of the run were handed to
\* it, a state log among them, with a store call that failed.
ShutdownFlushWitness ==
    /\ rpc = "exit"
    /\ Cardinality(acked) = MaxLogs
    /\ \E log \in acked : log.type = "State" /\ log.id = 1
    /\ \E log \in acked : log.type = "Event"
    /\ Failures # {}

\* The timestamps of a sequence of logs, rows or broadcast steps.
Stamps(seq) == [i \in DOMAIN seq |-> seq[i].timestamp]

\* The logs of deployment d in a sequence of logs.
LogsOf(seq, d) == SelectSeq(seq, LAMBDA log : log.id = d)

\* The logs of a sequence whose insert_log call succeeded.
Inserted(seq) ==
    SelectSeq(seq, LAMBDA log : Write("insert_log", log, TRUE) \in writes)

\* The router task is through with every log it took.
Idle == rpc \in {"recv", "exit"} /\ chan = <<>>

\* C31 as stated: the router task skips no log, so once it is through with
\* the logs it took, the rows of a deployment are the logs of that
\* deployment that went through the ingress channel, in that order.
RouterSkipsNoLog ==
    Idle => \A d \in AllIds : Stamps(logs[d]) = Stamps(LogsOf(taken, d))

\* C31, amended: the rows of a deployment are, in the order of the ingress
\* channel and each once, the logs of that deployment whose insert_log
\* succeeded (all of them when no store call failed); the broadcast steps
\* are, in that order and each once, the logs the router task is through
\* with, and each sends its log when there are receivers.
RouterKeepsOrder ==
    /\ \A d \in AllIds :
          /\ Stamps(logs[d]) = Stamps(Inserted(LogsOf(taken, d)))
          /\ (Idle /\ Failures = {}) =>
                Stamps(logs[d]) = Stamps(LogsOf(taken, d))
    /\ Len(cast) <= Len(taken)
    /\ Stamps(cast) = Stamps(SubSeq(taken, 1, Len(cast)))
    /\ Idle => Len(cast) = Len(taken)
    /\ \A i \in DOMAIN cast : cast[i].sent = (cast[i].receiver_count > 0)
    /\ \A i, j \in DOMAIN taken :
          taken[i].timestamp = taken[j].timestamp => i = j

\* Three logs of deployment 1 went through the channel, the one stamped
\* last not being the last to go through; the insert of one failed, the
\* other two are its rows, and all three were sent to the subscribers.
RouterKeepsOrderWitness ==
    /\ Idle
    /\ Len(LogsOf(taken, 1)) = 3
    /\ taken[3].timestamp < MaxLogs
    /\ Len(logs[1]) = 2
    /\ Len(cast) = 3
    /\ \A i \in DOMAIN cast : cast[i].sent

\* The log is the state log of the scope (id, state).
IsStateLogOf(log, id, state) ==
    log.type = "State" /\ log.id = id /\ log.state = state

\* C32: the state log of a scope comes before the event logs of that scope.
\* A span carries ScopeDetails only once its state log went through the
\* ingress channel; every event log that went through it has the state log
\* of its (id, state) before it; at the moment an event log is handed over,
\* the marker row of its (id, state) is already in the logs table; and in
\* the rows of a deployment each event row comes after the marker row of
\* its state.
StateLogBeforeEvents ==
    /\ [](\A s \in DOMAIN spans : \A details \in spans[s].details :
            \E i \in DOMAIN taken :
                /\ IsStateLogOf(taken[i], details.id, details.state)
                /\ taken[i].address = details.address)
    /\ [](\A j \in DOMAIN taken :
            taken[j].type = "Event" =>
                \E i \in 1..(j - 1) :
                    IsStateLogOf(taken[i], taken[j].id, taken[j].state))
    /\ [][(Len(taken') > Len(taken) /\ Last(taken').type = "Event") =>
            \E i \in DOMAIN logs[Last(taken').id] :
                /\ logs[Last(taken').id][i].fields = STATE_MESSAGE
                /\ logs[Last(taken').id][i].state = Last(taken').state]_vars
    /\ [](\A d \in AllIds : \A j \in DOMAIN logs[d] :
            logs[d][j].fields # STATE_MESSAGE =>
                \E i \in 1..(j - 1) :
                    /\ logs[d][i].fields = STATE_MESSAGE
                    /\ logs[d][i].state = logs[d][j].state)

\* Deployment 1 has the marker rows of Queued and Building and, after
\* both, the row of an event issued in its Building scope.
StateLogBeforeEventsWitness ==
    /\ Len(logs[1]) = 3
    /\ logs[1][1].fields = STATE_MESSAGE /\ logs[1][1].state = "Queued"
    /\ logs[1][2].fields = STATE_MESSAGE /\ logs[1][2].state = "Building"
    /\ logs[1][3].fields = "{message}" /\ logs[1][3].state = "Building"

\* The spans on the scope stack of an event whose current span is s.
RECURSIVE Stack(_)
Stack(s) == IF s = 0 THEN {} ELSE {s} \cup Stack(spans[s].parent)

\* The deployment-bearing spans on that stack.
Bearing(s) == {u \in Stack(s) : spans[u].details # None}

\* The event logs in a sequence of logs.
EventLogs(seq) == SelectSeq(seq, LAMBDA log : log.type = "Event")

\* C33: for each event the capture layer hands over at most one log: none
\* when no span on the event's scope stack is deployment-bearing; otherwise
\* one, of kind Event, without address, with the event's fields and the
\* (id, state) of the outermost deployment-bearing span of the stack.
OneEventLogPerEvent ==
    /\ [][Len(heard') > Len(heard) =>
            LET s == Last(heard')
            IN IF Bearing(s) = {}
               THEN taken' = taken /\ cur' = cur
               ELSE LET outer == CHOOSE u \in Bearing(s) :
                            Bearing(spans[u].parent) = {}
                        details == CHOOSE x \in spans[outer].details : TRUE
                    IN /\ Len(taken') = Len(taken) + 1
                       /\ SubSeq(taken', 1, Len(taken)) = taken
                       /\ Last(taken').type = "Event"
                       /\ Last(taken').address = None
                       /\ Last(taken').id = details.id
                       /\ Last(taken').state = details.state
                       /\ Last(taken').fields = "{message}"
                       /\ cur' = <<Last(taken')>>]_vars
    /\ [][Len(EventLogs(taken')) > Len(EventLogs(taken)) =>
            Len(heard') > Len(heard)]_vars
    /\ [](Len(EventLogs(taken)) <= Len(heard))

\* An event outside every deployment scope was dropped, and an event issued
\* in a Running scope of deployment 2 nested in the Queued scope of
\* deployment 1 gave one log, with deployment 1 and Queued.
OneEventLogPerEventWitness ==
    /\ Len(heard) = 2 /\ Len(spans) >= 2
    /\ Bearing(heard[1]) = {}
    /\ spans[1].parent = 0 /\ spans[2].parent = 1 /\ heard[2] = 2
    /\ \E x \in spans[1].details : x.id = 1 /\ x.state = "Queued"
    /\ \E x \in spans[2].details : x.id = 2 /\ x.state = "Running"
    /\ Len(EventLogs(taken)) = 1
    /\ Last(taken).type = "Event"
    /\ Last(taken).id = 1 /\ Last(taken).state = "Queued"

\* The step is the router task's update_deployment on a state log of d.
RouterUpdates(d) ==
    /\ rpc = "update" /\ rpc' = "publish"
    /\ cur[1].type = "State" /\ cur[1].id = d

\* The step changes the state or the address of the row of d.
Rewrites(d) ==
    \/ deployments'[d].state # deployments[d].state
    \/ deployments'[d].address # deployments[d].address

\* C34 as stated: a row is never deleted, and its state and address change
\* only in the router task's update on a state log of its id.
OnlyRouterWrites ==
    [][/\ Rows \subseteq DOMAIN deployments'
       /\ \A d \in Rows : Rewrites(d) => RouterUpdates(d)]_vars

\* C34, amended: a row is never deleted and keeps its service; its state
\* and address change only in the router task's update on a state log of
\* its id, which sets them from that log, or in cleanup_invalid_states at
\* startup, which sets the state of a Queued, Building, Built or Loading
\* row to Stopped and leaves its address and last_update.
SingleWriter ==
    [][/\ Rows \subseteq DOMAIN deployments'
       /\ \A d \in Rows :
            /\ deployments'[d].service_id = deployments[d].service_id
            /\ Rewrites(d) =>
                 \/ /\ RouterUpdates(d)
                    /\ deployments'[d].state = cur[1].state
                    /\ deployments'[d].address = ParsedColumn(cur[1])
                 \/ /\ phase = "cleanup" /\ phase' = "resume"
                    /\ deployments[d].state \in
                            {"Queued", "Building", "Built", "Loading"}
                    /\ deployments'[d].state = "Stopped"
                    /\ deployments'[d].address = deployments[d].address
                    /\ deployments'[d].last_update =
                            deployments[d].last_update]_vars

\* After a restart one row is Stopped without a Stopped state log of its
\* deployment, the router task having moved it on from Queued before, and
\* another row was set to Running by the router task.
SingleWriterWitness ==
    /\ restarts = 1
    /\ \E d \in Rows :
          /\ deployments[d].state = "Stopped"
          /\ Len(states[d]) >= 2
          /\ \A i \in DOMAIN states[d] : states[d][i].state # "Stopped"
    /\ \E d \in Rows : deployments[d].state = "Running"

Persisted(log) ==
    \E j \in DOMAIN logs[log.id] : logs[log.id][j].timestamp = log.timestamp

\* C37: the broadcast never holds up the router task. Whatever the
\* receivers do (none, one that does not read and lags, one dropped before
\* or during the send), the router task leaves the end of the loop body and
\* takes the next log a thread is handing over; the step that sends, or
\* fails to send, touches no table and leads to recv, never to the task's
\* end; a send that fails changes nothing; every log the router task took
\* is persisted; and the channel never retains more values than its
\* capacity.
BroadcastNeverHoldsUp ==
    /\ (rpc \in {"publish", "send"}) ~> (rpc \in {"recv", "insert", "exit"})
    /\ (emit["e1"] # <<>>) ~> (emit["e1"] = <<>>)
    /\ [](Len(stream) <= BroadcastCap)
    /\ [](\A i \in DOMAIN taken :
            (i < Len(taken) \/ rpc # "insert") => Persisted(taken[i]))
    /\ [][(rpc = "send" /\ rpc' # "send") =>
            /\ rpc' \in {"recv", "insert"}
            /\ logs' = logs /\ deployments' = deployments
            /\ writes' = writes
            /\ ReceiverCount = 0 => stream' = stream /\ cast' = cast]_vars
    /\ [][(rpc' = "exit" /\ rpc # "exit") => rpc = "recv" /\ ~senders]_vars

\* A receiver that did not read got Lagged and was then dropped between the
\* router task's reading of receiver_count and its send, which failed; the
\* three logs of the run are persisted and the router task is back in recv.
BroadcastNeverHoldsUpWitness ==
    /\ rpc = "recv"
    /\ Len(subs) = 1 /\ subs[1].lagged /\ ~subs[1].alive
    /\ Len(cast) = MaxLogs
    /\ cast[MaxLogs].receiver_count = 1 /\ ~cast[MaxLogs].sent
    /\ Len(logs[1]) = MaxLogs

\* The router task's store call op on the log, whatever its outcome, is
\* over.
Attempted(op, log) == \E ok \in BOOLEAN : Write(op, log, ok) \in writes

\* The deployment row shows the State log.
RowShows(log) ==
    /\ deployments[log.id].state = log.state
    /\ deployments[log.id].last_update = log.timestamp
    /\ deployments[log.id].address = ParsedColumn(log)

\* C38: persist before publish. When the router task comes to the
\* broadcast for a log, its insert_log for that log is over, and for a
\* State log its update_deployment too, each either done or failed; if
\* they succeeded, the log is in the logs table at that moment and, for a
\* State log whose deployment has a row, the row shows that log. At any
\* later time (when a subscriber that received the State log reads the
\* store) the row shows that log or a State log of the same deployment that
\* the router task took after it.
PersistBeforePublish ==
    /\ [][cast' # cast =>
            /\ cur # <<>>
            /\ cast'[Len(cast')].timestamp = cur[1].timestamp
            /\ Attempted("insert_log", cur[1])
            /\ cur[1].type = "State" =>
                    Attempted("update_deployment", cur[1])
            /\ Write("insert_log", cur[1], TRUE) \in writes =>
                    Persisted(cur[1])
            /\ (/\ cur[1].type = "State"
                /\ Write("update_deployment", cur[1], TRUE) \in writes
                /\ cur[1].id \in DOMAIN deployments) => RowShows(cur[1])]_vars
    /\ [](\A i \in DOMAIN cast :
            (/\ cast[i].sent
             /\ taken[i].type = "State"
             /\ Write("update_deployment", taken[i], TRUE) \in writes
             /\ taken[i].id \in DOMAIN deployments) =>
                \E j \in i..Len(taken) :
                    /\ taken[j].type = "State"
                    /\ taken[j].id = taken[i].id
                    /\ RowShows(taken[j]))

\* Receivers got a State log of deployment 1 after both of its store calls
\* succeeded, and a second State log of deployment 1 whose
\* update_deployment failed: the row shows the first log, which is in the
\* logs table.
PersistBeforePublishWitness ==
    /\ Len(cast) >= 2
    /\ cast[1].sent /\ cast[2].sent
    /\ taken[1].type = "State" /\ taken[1].id = 1
    /\ taken[2].type = "State" /\ taken[2].id = 1
    /\ Write("insert_log", taken[1], TRUE) \in writes
    /\ Write("update_deployment", taken[1], TRUE) \in writes
    /\ Write("update_deployment", taken[2], FALSE) \in writes
    /\ 1 \in DOMAIN deployments
    /\ RowShows(taken[1])
    /\ Persisted(taken[1])

\* C39: processing an Event log leaves every deployment row unchanged.
\* While the router task holds an Event log no row changes and the task is
\* never at update_deployment; a row's state, last_update or address
\* changes only in the update_deployment the task makes for a State log of
\* that row's id.
EventLeavesRows ==
    /\ [][(cur # <<>> /\ cur[1].type = "Event") =>
            /\ deployments' = deployments
            /\ rpc' # "update"
            /\ ~\E ok \in BOOLEAN : Wrote("update_deployment", ok)]_vars
    /\ [](\A w \in writes : \A i \in DOMAIN taken :
            (w.op = "update_deployment" /\ w.timestamp = taken[i].timestamp)
                => taken[i].type = "State")
    /\ [][\A d \in DOMAIN deployments \cap DOMAIN deployments' :
            (\/ deployments'[d].state # deployments[d].state
             \/ deployments'[d].last_update # deployments[d].last_update
             \/ deployments'[d].address # deployments[d].address) =>
                /\ Wrote("update_deployment", TRUE)
                /\ cur[1].type = "State"
                /\ cur[1].id = d]_vars

\* Deployment 1 runs at an address a State log gave it; the router task
\* has since processed an Event log of deployment 1, which is in the logs
\* table with a later timestamp, and the row still has the State log's
\* state, last_update and address.
EventLeavesRowsWitness ==
    /\ rpc = "recv"
    /\ Len(taken) = 2
    /\ taken[1].type = "State" /\ taken[1].id = 1
    /\ taken[2].type = "Event" /\ taken[2].id = 1
    /\ taken[2].timestamp > taken[1].timestamp
    /\ Persisted(taken[2])
    /\ Published(taken[2].timestamp)
    /\ 1 \in DOMAIN deployments
    /\ deployments[1].state = "Running"
    /\ deployments[1].last_update = taken[1].timestamp
    /\ deployments[1].address = Some(SocketToString(8001))

\* C40: under calls of get_or_create_service that interleave between the
\* lookup and the INSERT, the services table never holds two rows of one
\* name; the calls that returned Ok for a name returned the same service,
\* which is the row of that name; and a call whose INSERT comes second
\* returns the error and leaves the table as it is.
GetOrCreateServiceRace ==
    /\ [](\A s1, s2 \in services : s1.name = s2.name => s1 = s2)
    /\ [](\A c1, c2 \in Callers :
            (/\ look[c1].at = "ok" /\ look[c2].at = "ok"
             /\ look[c1].name = look[c2].name) =>
                look[c1].value = look[c2].value)
    /\ [](\A c \in Callers : look[c].at = "ok" =>
            /\ look[c].value \subseteq services
            /\ \A s \in look[c].value : s.name = look[c].name)
    /\ [][\A c \in Callers :
            (look[c].at = "insert" /\ look'[c].at = "err") =>
                /\ services' = services
                /\ \E s \in services : s.name = look[c].name]_vars

\* Both callers looked "gamma" up before either inserted it, so two ids
\* were made; one INSERT went through and the other failed; the caller
\* that failed called again, and both now hold the one row of that name.
GetOrCreateServiceRaceWitness ==
    /\ uuids = Cardinality(ServiceIds) + 2
    /\ \A c \in Callers : look[c].at = "ok" /\ look[c].name = "gamma"
    /\ look["c1"].value = look["c2"].value
    /\ Cardinality({s \in services : s.name = "gamma"}) = 1
====
